---- MODULE Spec2Model ----
(***************************************************************************)
(* Rating / statistics aggregation of the game catalog backend.            *)
(*                                                                         *)
(* Stored documents (Game, Review, User, Category) are records; a request  *)
(* handler is one action in the sequential specification Spec, and a chain *)
(* of steps (one per await) in the interleaved specification SpecConc.     *)
(*                                                                         *)
(* Numbers that the code keeps as floating point (rating.average,          *)
(* averagePlayTime, averageRating) are exact fractions [n, d] in lowest    *)
(* terms.  For the small counts explored here the double division is       *)
(* within one ulp of the fraction and no threshold comparison is affected. *)
(* Timestamps (lastUpdated, createdAt) and free-text fields are left out.  *)
(***************************************************************************)
EXTENDS Integers, Sequences, FiniteSets, Bags, TLC

\* ---- bounds of the exploration ----
\* sequential review traffic (Spec)
NumUsers == 2
NumGames == 1
MaxOps == 3
\* review submissions only (SpecPosts)
PostUsers == 4
PostGames == 1
MaxPosts == 4
\* catalog traffic (SpecCatalog)
CatalogUsers == 2
CatalogGames == 2
NumCats == 2
MaxCatalogOps == 3
\* interleaved review submissions (SpecConc)
ConcUsers == 2
ConcGames == 1
MaxRequests == 2
\* interleaved favorite toggles (SpecFavorites)
FavoriteUsers == 2
FavoriteGames == 2
MaxToggles == 3
\* one request at a time over the whole catalog (SpecFrame)
FrameUsers == 2
FrameGames == 1
MaxFrameOps == 3
\* review submissions as sent (SpecSubmit)
SubmitUsers == 2
SubmitGames == 1
MaxSubmits == 3
\* replies and account deletions (SpecModeration)
ModUsers == 2
ModGames == 1
MaxModOps == 3
\* requests with their tokens (SpecAccess)
AccessUsers == 3
AccessGames == 1
MaxAccessOps == 2
\* game creations and category deletions (SpecTree)
TreeUsers == 2
TreeGames == 1
MaxTreeOps == 3
\* registration, verification, login and password reset (SpecAuth)
AuthNames == 2
MaxAuthOps == 3
MaxMinutes == 10
\* helpful votes on reviews (SpecHelpful)
HelpfulUsers == 2
HelpfulGames == 1
MaxHelpfulOps == 3
\* favorite toggles with their answers (SpecToggles)
ToggleUsers == 2
ToggleGames == 2
MaxAnswers == 4
\* recorded plays (SpecPlays)
PlayUsers == 2
PlayGames == 2
MaxPlays == 4
MaxPlayTime == 2

\* ---- program constants ----
MinStar == 1
MaxStar == 5

Cats == 1..NumCats
Stars == MinStar..MaxStar

Absent == "absent"

\* ---- exact fractions standing for the code's doubles ----
RECURSIVE GCD(_, _)
GCD(a, b) == IF b = 0 THEN a ELSE GCD(b, a % b)

\* n / d in lowest terms; a zero denominator gives what the double division
\* gives: [0, 0] for 0 / 0 (NaN), [1, 0] for n / 0 with n > 0 (Infinity)
Frac(n, d) ==
    IF d = 0 THEN [n |-> IF n = 0 THEN 0 ELSE 1, d |-> 0]
    ELSE LET g == GCD(n, d) IN [n |-> n \div g, d |-> d \div g]

Zero == [n |-> 0, d |-> 1]

FracOfInt(i) == [n |-> i, d |-> 1]

FracAdd(x, y) == Frac(x.n * y.d + y.n * x.d, x.d * y.d)

\* x >= p/q
FracGeq(x, p, q) == x.n * q >= p * x.d

RECURSIVE SumOver(_, _)
SumOver(S, f) ==
    IF S = {} THEN 0
    ELSE LET x == CHOOSE y \in S : TRUE IN f[x] + SumOver(S \ {x}, f)

RECURSIVE FracSumOver(_, _)
FracSumOver(S, f) ==
    IF S = {} THEN Zero
    ELSE LET x == CHOOSE y \in S : TRUE IN FracAdd(f[x], FracSumOver(S \ {x}, f))

\* Math.round(x * 10) / 10 for x >= 0: Math.round is floor(y + 0.5); NaN and
\* Infinity stay what they are
Round1(x) == IF x.d = 0 THEN x ELSE Frac((20 * x.n + x.d) \div (2 * x.d), 10)

\* ---- Game document ----
ZeroDistribution == [s \in Stars |-> 0]

NewGame(cat) ==
    [category |-> cat, status |-> "active",
     rating |-> [average |-> Zero, count |-> 0, distribution |-> ZeroDistribution],
     stats |-> [playCount |-> 0, totalPlayTime |-> 0, averagePlayTime |-> Zero,
                favoriteCount |-> 0]]

\* sum of star * bucket over the distribution (the reduce of updateRating)
TotalRating(dist) == SumOver(Stars, [s \in Stars |-> s * dist[s]])

DistCount(dist) == SumOver(Stars, [s \in Stars |-> dist[s]])

\* variant: the count is incremented twice
updateRatingBug(doc, newRating) ==
    LET dist == [doc.rating.distribution EXCEPT ![newRating] = @ + 1]
    IN [doc EXCEPT !.rating = [average |-> Frac(TotalRating(dist), doc.rating.count + 2),
                               count |-> doc.rating.count + 2,
                               distribution |-> dist]]

\* variant: the average is taken over the distribution before the new bucket
\* was incremented
updateRatingStale(doc, newRating) ==
    LET dist == [doc.rating.distribution EXCEPT ![newRating] = @ + 1]
    IN [doc EXCEPT !.rating = [average |-> Frac(TotalRating(doc.rating.distribution),
                                                doc.rating.count + 1),
                               count |-> doc.rating.count + 1,
                               distribution |-> dist]]

\* gameSchema.methods.updateRating, on the in-memory document
updateRating(doc, newRating) ==
    LET dist == [doc.rating.distribution EXCEPT ![newRating] = @ + 1]
    IN [doc EXCEPT !.rating = [average |-> Frac(TotalRating(dist), doc.rating.count + 1),
                               count |-> doc.rating.count + 1,
                               distribution |-> dist]]

\* variant: the thresholds are exclusive
ratingLevelStrict(doc) ==
    IF ~FracGeq([n |-> 9, d |-> 2], doc.rating.average.n, doc.rating.average.d) THEN "excellent"
    ELSE IF ~FracGeq([n |-> 4, d |-> 1], doc.rating.average.n, doc.rating.average.d)
         THEN "very-good"
    ELSE IF ~FracGeq([n |-> 7, d |-> 2], doc.rating.average.n, doc.rating.average.d) THEN "good"
    ELSE IF ~FracGeq([n |-> 3, d |-> 1], doc.rating.average.n, doc.rating.average.d) THEN "fair"
    ELSE "poor"

\* gameSchema.virtual('ratingLevel')
ratingLevel(doc) ==
    IF FracGeq(doc.rating.average, 9, 2) THEN "excellent"
    ELSE IF FracGeq(doc.rating.average, 4, 1) THEN "very-good"
    ELSE IF FracGeq(doc.rating.average, 7, 2) THEN "good"
    ELSE IF FracGeq(doc.rating.average, 3, 1) THEN "fair"
    ELSE "poor"

\* variant: the counter is decremented without the floor
decrementFavoritesNoFloor(doc) == [doc EXCEPT !.stats.favoriteCount = @ - 1]

\* gameSchema.methods.decrementFavorites, on the in-memory document
decrementFavorites(doc) ==
    IF doc.stats.favoriteCount > 0 THEN [doc EXCEPT !.stats.favoriteCount = @ - 1] ELSE doc

\* gameSchema.methods.incrementFavorites, on the in-memory document
incrementFavorites(doc) == [doc EXCEPT !.stats.favoriteCount = @ + 1]

\* document.save(): only the paths the handler changed since it loaded the
\* document are written ($set); every other stored path keeps its value
Pick(stored, loaded, doc) == IF doc # loaded THEN doc ELSE stored

SaveGame(stored, loaded, doc) ==
    [category |-> Pick(stored.category, loaded.category, doc.category),
     status |-> Pick(stored.status, loaded.status, doc.status),
     rating |->
        [average |-> Pick(stored.rating.average, loaded.rating.average, doc.rating.average),
         count |-> Pick(stored.rating.count, loaded.rating.count, doc.rating.count),
         distribution |->
            [s \in Stars |-> Pick(stored.rating.distribution[s],
                                  loaded.rating.distribution[s],
                                  doc.rating.distribution[s])]],
     stats |->
        [playCount |-> Pick(stored.stats.playCount, loaded.stats.playCount, doc.stats.playCount),
         totalPlayTime |-> Pick(stored.stats.totalPlayTime, loaded.stats.totalPlayTime,
                                doc.stats.totalPlayTime),
         averagePlayTime |-> Pick(stored.stats.averagePlayTime, loaded.stats.averagePlayTime,
                                  doc.stats.averagePlayTime),
         favoriteCount |-> Pick(stored.stats.favoriteCount, loaded.stats.favoriteCount,
                                doc.stats.favoriteCount)]]

VARIABLES games, reviews, users, categories, guides, ops, last, cred, posted, only, played, procs,
          now, issued, trail

vars == <<games, reviews, users, categories, guides, ops, last, cred, posted, only, played, procs,
          now, issued, trail>>

\* the registered users and the games of the catalog
Users == DOMAIN users

Games == DOMAIN games

\* ---- Review collection: a bag of review documents (two documents with the
\* same fields are interchangeable, so their identities are not kept) ----
\* the helpful field of a new review: count 0 and an empty users array
NoVotes == [count |-> 0, users |-> <<>>]

\* reply.user is 0 while the review has no reply
Review(g, u, r, st) ==
    [game |-> g, user |-> u, rating |-> r, status |-> st, reply |-> 0, helpful |-> NoVotes]

ActiveReviews(rv, g) == {d \in BagToSet(rv) : d.game = g /\ d.status = "active"}

NumActive(rv, g) ==
    LET S == ActiveReviews(rv, g) IN SumOver(S, [d \in S |-> CopiesIn(d, rv)])

Insert(rv, d) == rv (+) SetToBag({d})

Remove(rv, d) == rv (-) SetToBag({d})

\* rating rebuilt from zero over the active reviews of a game
\* (the body of reviewSchema.post('findOneAndDelete') when reviews.length > 0)
Rescan(rv, g) ==
    LET S == ActiveReviews(rv, g)
        n == NumActive(rv, g)
    IN [average |-> Frac(SumOver(S, [d \in S |-> d.rating * CopiesIn(d, rv)]), n),
        count |-> n,
        distribution |->
            [s \in Stars |-> LET T == {d \in S : d.rating = s}
                             IN SumOver(T, [d \in T |-> CopiesIn(d, rv)])]]

\* reviewSchema.post('save'): an active review adds its rating to its game,
\* if the game still exists
PostSaveHook(gs, review) ==
    IF review.status = "active" /\ review.game \in DOMAIN gs
    THEN LET game == gs[review.game]
         IN [gs EXCEPT ![review.game] = SaveGame(gs[review.game], game,
                                                 updateRating(game, review.rating))]
    ELSE gs

\* variant: the rescan divides even when it found no active review
PostDeleteHookUnguarded(gs, rv, doc) ==
    IF doc.status = "active" /\ doc.game \in DOMAIN gs
    THEN LET game == gs[doc.game]
         IN [gs EXCEPT ![doc.game] = SaveGame(gs[doc.game], game,
                                              [game EXCEPT !.rating = Rescan(rv, doc.game)])]
    ELSE gs

\* variant: the rescan still sees the review that is being deleted
PostDeleteHookStale(gs, rv, doc) ==
    IF doc.status = "active" /\ doc.game \in DOMAIN gs /\ NumActive(rv, doc.game) > 0
    THEN LET game == gs[doc.game]
         IN [gs EXCEPT ![doc.game] =
                SaveGame(gs[doc.game], game,
                         [game EXCEPT !.rating = Rescan(Insert(rv, doc), doc.game)])]
    ELSE gs

\* reviewSchema.post('findOneAndDelete'), rv is the collection after removal
PostDeleteHook(gs, rv, doc) ==
    IF doc.status = "active" /\ doc.game \in DOMAIN gs /\ NumActive(rv, doc.game) > 0
    THEN LET game == gs[doc.game]
         IN [gs EXCEPT ![doc.game] = SaveGame(gs[doc.game], game,
                                              [game EXCEPT !.rating = Rescan(rv, doc.game)])]
    ELSE gs

\* crypto.createHash('sha256').update(t).digest('hex') of the random token
\* number t >= 1 (no two tokens have the same digest); Unset is a token path
\* that is undefined
sha256(t) == [sha256 |-> t]

Unset == sha256(0)

\* the hash that pre('save') stores for the password p, and bcrypt.compare
bcrypt(p) == [bcrypt |-> p]

matchPassword(user, enteredPassword) == user.password = bcrypt(enteredPassword)

\* the document of user u once registered with username u, email u and
\* password 1, and verified (user 1 was made admin)
NewUser(u) == [role |-> IF u = 1 THEN "admin" ELSE "user", isVerified |-> TRUE,
               reviewsPosted |-> 0, gamesPlayed |-> 0, favoriteCategories |-> {},
               username |-> u, email |-> u, password |-> bcrypt(1),
               verificationToken |-> Unset, resetPasswordToken |-> Unset,
               resetPasswordExpire |-> 0]

NewCategory ==
    [parent |-> 0, isActive |-> TRUE,
     stats |-> [gameCount |-> 0, totalPlayCount |-> 0, averageRating |-> Zero]]

\* Two requests can be in flight at a time; each holds the documents it loaded.
Procs == {1, 2}

Idle == [pc |-> "idle", u |-> 0, g |-> 0, r |-> 0,
         me |-> NewUser(0), gameExists |-> NewGame(0), game |-> NewGame(0)]

\* last: the request that was answered last: its kind and HTTP status and, for
\* the requests whose effect is examined afterwards, the game or category it
\* addressed and the value it found (a) and left (b); for a request on a
\* review, by says what the requester is to that review
Answer(op, code, target, a, b) ==
    [op |-> op, code |-> code, target |-> target, a |-> a, b |-> b, by |-> ""]

\* what a request carries as its token: none, one that jwt.verify rejects
\* (forged or expired), or one that verifies and decodes to the user id
NoToken == [kind |-> "none", id |-> 0]

BadToken == [kind |-> "invalid", id |-> 0]

TokenOf(u) == [kind |-> "token", id |-> u]

\* the guides array of the guides router, by difficulty
BuiltInGuides == <<"medium", "hard", "easy">>

\* now: Date.now(), in minutes.  issued: how many user ids and how many random
\* tokens were given out (the ids are 1..issued.ids, the tokens
\* 1..issued.tokens; neither is given out twice).  trail: what happened so
\* far, as <<"verify", id, 0>>, <<"verified with", token, 0>>,
\* <<"login", id, 0>>, <<"reset token", token, time it was stored>>,
\* <<"reset with", token, 0>> and <<"mail failed", username, email>>.

\* played: per game, the number of updateStats calls and the sum of their
\* playTime arguments
NoPlay == [calls |-> 0, time |-> 0]

\* The store after the users us registered (user 1 was made admin) and ng games were created by POST /api/games, all in category 1
\* (whose stats the last creation recomputed); the other categories have no
\* game.  No review, play or favorite yet.  ops is the number of requests
\* still to be explored.
InitStore(us, ng, budget) ==
    /\ games = [g \in 1..ng |-> NewGame(1)]
    /\ reviews = EmptyBag
    /\ users = us
    /\ categories = [c \in Cats |->
                        [NewCategory EXCEPT !.stats.gameCount = IF c = 1 THEN ng ELSE 0]]
    /\ guides = BuiltInGuides
    /\ ops = budget
    /\ last = Answer("none", 0, 0, 0, 0)
    /\ cred = NoToken
    /\ now = 0
    /\ issued = [ids |-> Len(us),
                 tokens |-> Cardinality({u \in DOMAIN us : us[u].verificationToken # Unset})]
    /\ trail = {}
    /\ posted = [g \in 1..ng |-> ZeroDistribution]
    /\ only = [g \in 1..ng |-> TRUE]
    /\ played = [g \in 1..ng |-> NoPlay]
    /\ procs = [p \in Procs |-> Idle]

InitWith(nu, ng, budget) == InitStore([u \in 1..nu |-> NewUser(u)], ng, budget)

Init == InitWith(NumUsers, NumGames, MaxOps)

\* Users that have not acted yet and have the same role are interchangeable:
\* of those only the lowest-numbered one is explored as the next new requester.
Untouched(u) == users[u] = NewUser(u) /\ \A d \in BagToSet(reviews) : d.user # u

Explored(u) ==
    Untouched(u) => \A v \in Users : (v < u /\ users[v].role = users[u].role) => ~Untouched(v)

\* what the requester is to the stored review d: review.user.toString() ===
\* req.user.id, else req.user.role === 'admin'
Requester(actor, d) ==
    IF d.user = actor THEN "author" ELSE IF users[actor].role = "admin" THEN "admin" ELSE "other"

\* variant: an unverified account passes
protectUnverified(c) ==
    IF c.kind = "none" THEN 401
    ELSE IF c.kind = "invalid" THEN 401
    ELSE IF c.id \notin Users THEN 401
    ELSE 0

\* the protect middleware: 401, or 0 when it sets req.user = users[c.id] and
\* calls next
protect(c) ==
    IF c.kind = "none" THEN 401
    ELSE IF c.kind = "invalid" THEN 401
    ELSE IF c.id \notin Users THEN 401
    ELSE IF ~users[c.id].isVerified THEN 401
    ELSE 0

\* variant: any logged-in user is let through
authorizeAnyRole(roles, actor) ==
    IF actor \notin Users THEN 401
    ELSE 0

\* the authorize(...roles) middleware on req.user = users[actor] (no req.user
\* when actor is not a stored user): 401, 403, or 0 when it calls next
authorize(roles, actor) ==
    IF actor \notin Users THEN 401
    ELSE IF users[actor].role \notin roles THEN 403
    ELSE 0

\* variant: the handler's updateRating works on the game as the hook left it
PostReviewFresh(u, g, r) ==
    IF \E d \in ActiveReviews(reviews, g) : d.user = u
    THEN /\ last' = Answer("post", 400, 0, 0, 0)
         /\ UNCHANGED <<games, reviews, users, categories, posted, only>>
    ELSE /\ LET review == Review(g, u, r, "active")
                hooked == PostSaveHook(games, review)
                gameExists == hooked[g]
            IN /\ reviews' = Insert(reviews, review)
               /\ users' = [users EXCEPT ![u].reviewsPosted = @ + 1]
               /\ games' = [hooked EXCEPT ![g] =
                               SaveGame(hooked[g], gameExists, updateRating(gameExists, r))]
         /\ last' = Answer("post", 201, 0, 0, 0)
         /\ posted' = IF only[g] THEN [posted EXCEPT ![g][r] = @ + 1] ELSE posted
         /\ UNCHANGED <<categories, only>>

\* POST /api/reviews by user u (rating r already validated as an integer 1..5).
\* gameExists is loaded before the review is created; Review.create runs the
\* post('save') hook, which loads the game again and saves it; the handler then
\* calls updateRating on gameExists, the document it loaded first.
PostReviewHandler(u, g, r) ==
    IF \E d \in ActiveReviews(reviews, g) : d.user = u
    THEN /\ last' = Answer("post", 400, 0, 0, 0)
         /\ UNCHANGED <<games, reviews, users, categories, posted, only>>
    ELSE /\ LET gameExists == games[g]
                review == Review(g, u, r, "active")
                hooked == PostSaveHook(games, review)
            IN /\ reviews' = Insert(reviews, review)
               /\ users' = [users EXCEPT ![u].reviewsPosted = @ + 1]
               /\ games' = [hooked EXCEPT ![g] =
                               SaveGame(hooked[g], gameExists, updateRating(gameExists, r))]
         /\ last' = Answer("post", 201, 0, 0, 0)
         /\ posted' = IF only[g] THEN [posted EXCEPT ![g][r] = @ + 1] ELSE posted
         /\ UNCHANGED <<categories, only>>

PostReview(u, g, r) ==
    /\ UNCHANGED <<procs, played, guides, cred, now, issued, trail>>
    /\ ops > 0
    /\ Explored(u)
    /\ ops' = ops - 1
    /\ PostReviewHandler(u, g, r)

\* the request bodies PUT /api/reviews/:id is tried with: nothing that matters
\* here, a new rating (sent as a JSON number or as a numeric string, both pass
\* isInt), or a new status; rating 0 stands for no rating in the body, and
\* helpful is <<>> when the body has no helpful key, <<h>> when it carries h
PutBodies ==
    [rating : {0}, asString : {FALSE}, status : {Absent, "active", "hidden"}, helpful : {<<>>}]
        \cup [rating : Stars, asString : BOOLEAN, status : {Absent}, helpful : {<<>>}]

\* variant: the permission test only looks for a logged-in user
MayModifyAnyone(actor, d) == actor \in Users

\* the permission test of PUT and DELETE /api/reviews/:id, negated
MayModify(actor, d) == d.user = actor \/ users[actor].role = "admin"

\* PUT /api/reviews/:id on a stored review d
PutReview(actor, d, body) ==
    /\ UNCHANGED <<procs, played, guides, cred, now, issued, trail>>
    /\ ops > 0
    /\ ops' = ops - 1
    /\ BagIn(d, reviews)
    /\ Explored(actor)
    /\ IF ~MayModify(actor, d)
       THEN /\ last' = [Answer("put", 403, d.game, 0, 0) EXCEPT !.by = Requester(actor, d)]
            /\ UNCHANGED <<games, reviews, users, categories, posted, only>>
       ELSE LET \* Object.assign(review, req.body): every key of the body is assigned
                review == [d EXCEPT !.rating = IF body.rating = 0 THEN @ ELSE body.rating,
                                    !.status = IF body.status = Absent THEN @ ELSE body.status,
                                    !.helpful = IF body.helpful = <<>> THEN @
                                                ELSE body.helpful[1]]
                hooked == PostSaveHook(games, review)
                \* req.body.rating !== review.rating compares the body with the
                \* review it was just assigned to: a number is never different,
                \* a numeric string always is
                changed == body.rating # 0 /\ body.asString /\ review.game \in DOMAIN hooked
                game == hooked[review.game]
                bothActive == d.status = "active" /\ review.status = "active"
            IN /\ reviews' = Insert(Remove(reviews, d), review)
               /\ games' = IF changed
                           THEN [hooked EXCEPT ![review.game] =
                                    SaveGame(hooked[review.game], game,
                                             updateRating(game, body.rating))]
                           ELSE hooked
               /\ last' = [Answer("put", 200, d.game,
                                  IF bothActive THEN d.rating ELSE 0,
                                  IF bothActive THEN review.rating ELSE 0)
                            EXCEPT !.by = Requester(actor, d)]
               /\ only' = [only EXCEPT ![d.game] = FALSE]
               /\ posted' = [posted EXCEPT ![d.game] = ZeroDistribution]
               /\ UNCHANGED <<users, categories>>

\* DELETE /api/reviews/:id on a stored review d
DeleteReview(actor, d) ==
    /\ UNCHANGED <<procs, played, guides, cred, now, issued, trail>>
    /\ ops > 0
    /\ ops' = ops - 1
    /\ BagIn(d, reviews)
    /\ Explored(actor)
    /\ IF ~MayModify(actor, d)
       THEN /\ last' = [Answer("delete", 403, d.game, 0, 0) EXCEPT !.by = Requester(actor, d)]
            /\ UNCHANGED <<games, reviews, users, categories, posted, only>>
       ELSE /\ reviews' = Remove(reviews, d)
            /\ games' = PostDeleteHook(games, reviews', d)
            /\ last' = [Answer("delete", 200, d.game,
                               IF d.status = "active" THEN d.rating ELSE 0, 0)
                         EXCEPT !.by = Requester(actor, d)]
            /\ only' = [only EXCEPT ![d.game] = FALSE]
            /\ posted' = [posted EXCEPT ![d.game] = ZeroDistribution]
            /\ UNCHANGED <<users, categories>>

\* ---- sequential review traffic: one request at a time ----
Next ==
    \/ \E u \in Users, g \in Games, r \in Stars : PostReview(u, g, r)
    \/ \E u \in Users, d \in BagToSet(reviews), body \in PutBodies : PutReview(u, d, body)
    \/ \E u \in Users, d \in BagToSet(reviews) : DeleteReview(u, d)

Spec == Init /\ [][Next]_vars

\* ---- review submissions only, one at a time ----
SubmitReview(u, g, r) ==
    /\ UNCHANGED <<procs, played, guides, cred, now, issued, trail>>
    /\ ops > 0
    /\ Explored(u)
    /\ ops' = ops - 1
    /\ PostReviewHandler(u, g, r)

NextPosts == \E u \in Users, g \in Games, r \in Stars : SubmitReview(u, g, r)

InitPosts == InitWith(PostUsers, PostGames, MaxPosts)

SpecPosts == InitPosts /\ [][NextPosts]_vars

\* ---- catalog traffic: plays, game updates, category rollup ----

\* variant: the average is taken over the play count before the increment
updateStatsStale(doc, playTime) ==
    [doc EXCEPT !.stats.playCount = @ + 1,
                !.stats.totalPlayTime = @ + playTime,
                !.stats.averagePlayTime =
                    Frac(doc.stats.totalPlayTime + playTime, doc.stats.playCount)]

\* gameSchema.methods.updateStats(playTime), on the in-memory document
updateStats(doc, playTime) ==
    [doc EXCEPT !.stats.playCount = @ + 1,
                !.stats.totalPlayTime = @ + playTime,
                !.stats.averagePlayTime =
                    Frac(doc.stats.totalPlayTime + playTime, doc.stats.playCount + 1)]

\* GET /api/games/:id; u = 0 is a request without a verified user (optionalAuth)
ViewGame(u, g) ==
    /\ UNCHANGED <<procs, guides, cred, now, issued, trail>>
    /\ ops > 0
    /\ ops' = ops - 1
    /\ u # 0 => Explored(u)
    /\ IF u = 0
       THEN UNCHANGED <<games, users, played>>
       ELSE /\ games' = [games EXCEPT ![g] = SaveGame(games[g], games[g],
                                                      updateStats(games[g], 0))]
            /\ users' = [users EXCEPT ![u].gamesPlayed = @ + 1]
            /\ played' = [played EXCEPT ![g].calls = @ + 1]
    /\ last' = Answer("view", 200, 0, 0, 0)
    /\ UNCHANGED <<reviews, categories, posted, only>>

\* game.updateStats(playTime) on the stored game g, with its save
RecordPlay(g, playTime) ==
    /\ UNCHANGED <<procs, guides, cred, now, issued, trail>>
    /\ ops > 0
    /\ ops' = ops - 1
    /\ games' = [games EXCEPT ![g] = SaveGame(games[g], games[g],
                                               updateStats(games[g], playTime))]
    /\ played' = [played EXCEPT ![g].calls = @ + 1, ![g].time = @ + playTime]
    /\ last' = Answer("updateStats", 200, g, playTime, 0)
    /\ UNCHANGED <<reviews, users, categories, posted, only>>

\* the bodies PUT /api/games/:id is tried with: a new status or a new category
\* (0: no category in the body)
GameBodies ==
    [status : {"active", "inactive", "maintenance"}, category : {0}]
        \cup [status : {Absent}, category : Cats]

\* PUT /api/games/:id after protect: authorize('admin'), then Object.assign
\* and save
PutGameHandler(actor, g, body) ==
    /\ IF authorize({"admin"}, actor) # 0
       THEN /\ last' = Answer("putgame", authorize({"admin"}, actor), 0, 0, 0)
            /\ UNCHANGED games
       ELSE /\ games' = [games EXCEPT
                            ![g].status = IF body.status = Absent THEN @ ELSE body.status,
                            ![g].category = IF body.category = 0 THEN @ ELSE body.category]
            /\ last' = Answer("putgame", 200, 0, 0, 0)
    /\ UNCHANGED <<reviews, users, categories, guides, posted, only, played>>

PutGame(actor, g, body) ==
    /\ UNCHANGED <<procs, cred, now, issued, trail>>
    /\ ops > 0
    /\ ops' = ops - 1
    /\ Explored(actor)
    /\ PutGameHandler(actor, g, body)

\* variant: the $match forgets the status
MatchAnyStatus(gs, c) == {g \in DOMAIN gs : gs[g].category = c}

\* $match { category: this._id, status: 'active' }
Match(gs, c) == {g \in DOMAIN gs : gs[g].category = c /\ gs[g].status = "active"}

\* variant: the rollup is added to the stats the category already has
categoryUpdateStatsAccumulate(gs, c) ==
    LET m == Match(gs, c)
        n == Cardinality(m)
        sum == FracSumOver(m, [g \in m |-> gs[g].rating.average])
    IN IF n > 0
       THEN [gameCount |-> categories[c].stats.gameCount + n,
             totalPlayCount |-> categories[c].stats.totalPlayCount
                                  + SumOver(m, [g \in m |-> gs[g].stats.playCount]),
             averageRating |-> Round1(Frac(sum.n, sum.d * n))]
       ELSE [gameCount |-> 0, totalPlayCount |-> 0, averageRating |-> Zero]

\* categorySchema.methods.updateStats: the $group over the matched games, then
\* the assignment to this.stats (an empty match gives no group at all)
categoryUpdateStats(gs, c) ==
    LET m == Match(gs, c)
        n == Cardinality(m)
        sum == FracSumOver(m, [g \in m |-> gs[g].rating.average])
    IN IF n > 0
       THEN [gameCount |-> n,
             totalPlayCount |-> SumOver(m, [g \in m |-> gs[g].stats.playCount]),
             averageRating |-> Round1(Frac(sum.n, sum.d * n))]
       ELSE [gameCount |-> 0, totalPlayCount |-> 0, averageRating |-> Zero]

\* PUT /api/categories/:id/stats after protect, on a stored category c;
\* last.a is 1 when the request answered just before was a successful
\* recompute of the same category
CategoryStatsHandler(actor, c) ==
    /\ IF authorize({"admin"}, actor) # 0
       THEN /\ last' = Answer("catstats", authorize({"admin"}, actor), c, 0, 0)
            /\ UNCHANGED categories
       ELSE /\ categories' = [categories EXCEPT ![c].stats = categoryUpdateStats(games, c)]
            /\ last' = Answer("catstats", 200, c,
                              IF last.op = "catstats" /\ last.code = 200 /\ last.target = c
                              THEN 1 ELSE 0, 0)
    /\ UNCHANGED <<games, reviews, users, guides, posted, only, played>>

CategoryStats(actor, c) ==
    /\ UNCHANGED <<procs, cred, now, issued, trail>>
    /\ ops > 0
    /\ ops' = ops - 1
    /\ Explored(actor)
    /\ CategoryStatsHandler(actor, c)

CatalogReview(u, g, r) ==
    /\ UNCHANGED <<procs, played, guides, cred, now, issued, trail>>
    /\ ops > 0
    /\ Explored(u)
    /\ ops' = ops - 1
    /\ PostReviewHandler(u, g, r)

\* the ratings submitted between catalog requests; the rollup sees them only
\* through each game's average
CatalogStars == {1, 2, 4}

NextCatalog ==
    \/ \E u \in Users, g \in Games, r \in CatalogStars : CatalogReview(u, g, r)
    \/ \E u \in {0} \cup Users, g \in Games : ViewGame(u, g)
    \/ \E u \in Users, g \in Games, body \in GameBodies : PutGame(u, g, body)
    \/ \E u \in Users, c \in Cats : CategoryStats(u, c)

InitCatalog == InitWith(CatalogUsers, CatalogGames, MaxCatalogOps)

SpecCatalog == InitCatalog /\ [][NextCatalog]_vars

\* ---- one request at a time over reviews, plays, favorites and games ----

\* POST /api/games after protect; cat = 0 is the id of no category.  The new
\* game gets the next id (ids are never reused).
CreateGameHandler(actor, cat) ==
    /\ IF authorize({"admin"}, actor) # 0
       THEN /\ last' = Answer("creategame", authorize({"admin"}, actor), 0, 0, 0)
            /\ UNCHANGED <<games, categories, posted, only, played>>
       ELSE IF cat \notin DOMAIN categories
       THEN /\ last' = Answer("creategame", 400, 0, 0, 0)
            /\ UNCHANGED <<games, categories, posted, only, played>>
       ELSE LET id == Len(posted) + 1
            IN /\ games' = games @@ (id :> NewGame(cat))
               /\ categories' = [categories EXCEPT ![cat].stats = categoryUpdateStats(games', cat)]
               /\ posted' = Append(posted, ZeroDistribution)
               /\ only' = Append(only, TRUE)
               /\ played' = Append(played, NoPlay)
               /\ last' = Answer("creategame", 201, id, cat, 0)
    /\ UNCHANGED <<reviews, users, guides>>

CreateGame(actor, cat) ==
    /\ UNCHANGED <<procs, cred, now, issued, trail>>
    /\ ops > 0
    /\ ops' = ops - 1
    /\ Explored(actor)
    /\ CreateGameHandler(actor, cat)

\* variant: the deletion recomputes the stats of the game's category
DeleteGameHandlerRecompute(actor, g) ==
    /\ IF authorize({"admin"}, actor) # 0
       THEN /\ last' = Answer("deletegame", authorize({"admin"}, actor), 0, 0, 0)
            /\ UNCHANGED <<games, categories>>
       ELSE /\ games' = [h \in DOMAIN games \ {g} |-> games[h]]
            /\ categories' = [categories EXCEPT ![games[g].category].stats =
                                  categoryUpdateStats(games', games[g].category)]
            /\ last' = Answer("deletegame", 200, g, 0, 0)
    /\ UNCHANGED <<reviews, users, guides, posted, only, played>>

\* DELETE /api/games/:id after protect, on a stored game g (its reviews stay)
DeleteGameHandler(actor, g) ==
    /\ IF authorize({"admin"}, actor) # 0
       THEN /\ last' = Answer("deletegame", authorize({"admin"}, actor), 0, 0, 0)
            /\ UNCHANGED games
       ELSE /\ games' = [h \in DOMAIN games \ {g} |-> games[h]]
            /\ last' = Answer("deletegame", 200, g, 0, 0)
    /\ UNCHANGED <<reviews, users, categories, guides, posted, only, played>>

DeleteGame(actor, g) ==
    /\ UNCHANGED <<procs, cred, now, issued, trail>>
    /\ ops > 0
    /\ ops' = ops - 1
    /\ Explored(actor)
    /\ DeleteGameHandler(actor, g)

\* POST /api/games/:id/favorite by req.user = users[u], run to completion
ToggleFavoriteHandler(u, g) ==
    /\ LET game == games[g]
           isFavorited == game.category \in users[u].favoriteCategories
           doc == IF isFavorited THEN decrementFavorites(game) ELSE incrementFavorites(game)
       IN /\ games' = [games EXCEPT ![g] = SaveGame(games[g], game, doc)]
          /\ users' = [users EXCEPT ![u].favoriteCategories =
                           IF isFavorited THEN @ \ {game.category} ELSE @ \cup {game.category}]
          /\ last' = Answer(IF isFavorited THEN "decrementFavorites" ELSE "incrementFavorites",
                            200, g, game.stats.favoriteCount, doc.stats.favoriteCount)
    /\ UNCHANGED <<reviews, categories, posted, only>>

ToggleFavorite(u, g) ==
    /\ UNCHANGED <<procs, played, guides, cred, now, issued, trail>>
    /\ ops > 0
    /\ ops' = ops - 1
    /\ Explored(u)
    /\ ToggleFavoriteHandler(u, g)

\* the same request with its answer kept: <<"favorited", u, g>> is in trail
\* exactly when the most recent toggle of user u on game g was answered
\* isFavorited: true (the handler answers !isFavorited)
ToggleFavoriteAnswered(u, g) ==
    /\ UNCHANGED <<procs, played, guides, cred, now, issued>>
    /\ ops > 0
    /\ ops' = ops - 1
    /\ Explored(u)
    /\ ToggleFavoriteHandler(u, g)
    /\ trail' = IF games[g].category \in users[u].favoriteCategories
                THEN trail \ {<<"favorited", u, g>>}
                ELSE trail \cup {<<"favorited", u, g>>}

\* the review traffic tried between the catalog requests
FrameStars == {MinStar, MaxStar}

\* the review edits tried between the catalog requests
FrameBodies == {body \in PutBodies : body.rating \in {0, 2} /\ body.status # "active"}

NextFrame ==
    \/ \E u \in Users, g \in Games, r \in FrameStars : PostReview(u, g, r)
    \/ \E u \in Users, d \in BagToSet(reviews), body \in FrameBodies : PutReview(u, d, body)
    \/ \E u \in Users, d \in BagToSet(reviews) : DeleteReview(u, d)
    \/ \E u \in {0} \cup Users, g \in Games : ViewGame(u, g)
    \/ \E u \in Users, g \in Games : ToggleFavorite(u, g)
    \/ \E u \in Users, cat \in {0} \cup Cats : CreateGame(u, cat)
    \/ \E u \in Users, g \in Games, body \in GameBodies : PutGame(u, g, body)
    \/ \E u \in Users, g \in Games : DeleteGame(u, g)
    \/ \E u \in Users, c \in Cats : CategoryStats(u, c)

InitFrame == InitWith(FrameUsers, FrameGames, MaxFrameOps)

SpecFrame == InitFrame /\ [][NextFrame]_vars

\* req.body.rating as it arrives: an integer literal ("int", as a JSON number
\* or a string), any other text such as "3.5" ("text"), or nothing
\* ("missing"); v is what parseInt makes of it (0 for NaN)
RawRatings ==
    [kind : {"int"}, v : {MinStar - 1, MinStar, MaxStar, MaxStar + 1}]
        \cup {[kind |-> "text", v |-> 3], [kind |-> "missing", v |-> 0]}

\* req.body.game: the id of a game that exists, existed or never existed (ids
\* up to Len(posted) have been given out), a string that is no ObjectId, or
\* nothing
GameRefs ==
    [kind : {"id"}, v : 1..(Len(posted) + 1)]
        \cup {[kind |-> "malformed", v |-> 0], [kind |-> "empty", v |-> 0]}

\* variant: the rating is validated after parseInt, so "3.5" counts as 3
isIntLax(raw, min, max) == raw.kind \in {"int", "text"} /\ min <= raw.v /\ raw.v <= max

\* express-validator isInt({min, max})
isInt(raw, min, max) == raw.kind = "int" /\ min <= raw.v /\ raw.v <= max

\* what a rejected submission is remembered by: the game asked for (0: none,
\* -1: no ObjectId) and the rating sent (-1: no integer literal)
RefCode(ref) == IF ref.kind = "id" THEN ref.v ELSE IF ref.kind = "empty" THEN 0 ELSE -1

RawCode(raw) == IF raw.kind = "int" THEN raw.v ELSE -1

\* POST /api/reviews with the body as sent: the validation chain, then the
\* lookup of the game (Game.findById throws a CastError on a string that is
\* no ObjectId, which the handler's catch answers with 500), then the handler
SubmitRawReview(u, ref, raw) ==
    /\ UNCHANGED <<procs, played, guides, cred, now, issued, trail>>
    /\ ops > 0
    /\ Explored(u)
    /\ ops' = ops - 1
    /\ IF ~isInt(raw, MinStar, MaxStar) \/ ref.kind = "empty"
       THEN /\ last' = Answer("post", 400, RefCode(ref), RawCode(raw), u)
            /\ UNCHANGED <<games, reviews, users, categories, posted, only>>
       ELSE IF ref.kind = "malformed"
       THEN /\ last' = Answer("post", 500, RefCode(ref), RawCode(raw), u)
            /\ UNCHANGED <<games, reviews, users, categories, posted, only>>
       ELSE IF ref.v \notin DOMAIN games
       THEN /\ last' = Answer("post", 404, RefCode(ref), RawCode(raw), u)
            /\ UNCHANGED <<games, reviews, users, categories, posted, only>>
       ELSE PostReviewHandler(u, ref.v, raw.v)

\* ---- review submissions as sent, while games are deleted ----
NextSubmit ==
    \/ \E u \in Users, ref \in GameRefs, raw \in RawRatings : SubmitRawReview(u, ref, raw)
    \/ \E u \in Users, g \in Games : DeleteGame(u, g)

InitSubmit == InitWith(SubmitUsers, SubmitGames, MaxSubmits)

SpecSubmit == InitSubmit /\ [][NextSubmit]_vars

\* ---- replies to reviews and account deletions ----

\* POST /api/reviews/:id/reply on a stored review d, by a logged-in user (the
\* route runs protect and the content check only); addReply sets the reply
\* and saves the review, which runs post('save').  last.a is the requester.
ReplyReview(actor, d) ==
    /\ UNCHANGED <<procs, played, guides, cred, now, issued, trail>>
    /\ ops > 0
    /\ ops' = ops - 1
    /\ BagIn(d, reviews)
    /\ Explored(actor)
    /\ LET review == [d EXCEPT !.reply = actor]
       IN /\ reviews' = Insert(Remove(reviews, d), review)
          /\ games' = PostSaveHook(games, review)
    /\ last' = Answer("reply", 200, d.game, actor, 0)
    /\ only' = [only EXCEPT ![d.game] = FALSE]
    /\ posted' = [posted EXCEPT ![d.game] = ZeroDistribution]
    /\ UNCHANGED <<users, categories>>

\* DELETE /api/users/account after protect, by user u: the password is
\* checked, then Review.deleteMany({user}) (a query without document hooks)
\* and User.findByIdAndDelete.  last.target is the deleted user.
DeleteAccountHandler(u, passwordMatches) ==
    /\ IF ~passwordMatches
       THEN /\ last' = Answer("deleteaccount", 400, u, 0, 0)
            /\ UNCHANGED <<reviews, users, only, posted>>
       ELSE /\ reviews' = [d \in {e \in BagToSet(reviews) : e.user # u} |-> reviews[d]]
            /\ users' = [v \in Users \ {u} |-> users[v]]
            /\ last' = Answer("deleteaccount", 200, u, 0, 0)
            /\ only' = [g \in DOMAIN only |->
                            only[g] /\ ~\E e \in BagToSet(reviews) : e.user = u /\ e.game = g]
            /\ posted' = [g \in DOMAIN posted |->
                            IF only'[g] THEN posted[g] ELSE ZeroDistribution]
    /\ UNCHANGED <<games, categories, guides, played>>

DeleteAccount(u, passwordMatches) ==
    /\ UNCHANGED <<procs, cred, now, issued, trail>>
    /\ ops > 0
    /\ ops' = ops - 1
    /\ Explored(u)
    /\ DeleteAccountHandler(u, passwordMatches)

NextModeration ==
    \/ \E u \in Users, g \in Games, r \in Stars : PostReview(u, g, r)
    \/ \E u \in Users, d \in BagToSet(reviews) : ReplyReview(u, d)
    \/ \E u \in Users, passwordMatches \in BOOLEAN : DeleteAccount(u, passwordMatches)

InitModeration == InitWith(ModUsers, ModGames, MaxModOps)

SpecModeration == InitModeration /\ [][NextModeration]_vars

\* ---- recorded plays: updateStats with a play time, and the detail page ----
PlayTimes == 0..MaxPlayTime

NextPlays ==
    \/ \E g \in Games, playTime \in PlayTimes : RecordPlay(g, playTime)
    \/ \E u \in {0} \cup Users, g \in Games : ViewGame(u, g)

InitPlays == InitWith(PlayUsers, PlayGames, MaxPlays)

SpecPlays == InitPlays /\ [][NextPlays]_vars

\* ---- requests as they arrive: the token, protect, then the route ----

\* a request arrives with its token c, which cred remembers
Receive(c) ==
    /\ ops > 0
    /\ ops' = ops - 1
    /\ cred' = c
    /\ UNCHANGED <<procs, now, issued, trail>>

\* a middleware answers with code and does not call next
Refused(op, code) ==
    /\ last' = Answer(op, code, 0, 0, 0)
    /\ UNCHANGED <<games, reviews, users, categories, guides, posted, only, played>>

\* the category ids in use or still referred to; a new category gets an id
\* above all of them (an id nothing refers to any more is as good as new)
CategoryIds ==
    Cats \cup DOMAIN categories \cup {games[g].category : g \in Games}
         \cup {categories[c].parent : c \in DOMAIN categories}
         \cup UNION {users[u].favoriteCategories : u \in Users}

FreshCategory == 1 + CHOOSE m \in CategoryIds : \A c \in CategoryIds : c <= m

\* POST /api/categories after protect; parent = 0 is no parent in the body
\* (name, icon and color are valid)
CreateCategoryHandler(actor, parent) ==
    /\ IF authorize({"admin"}, actor) # 0
       THEN /\ last' = Answer("createcategory", authorize({"admin"}, actor), 0, 0, 0)
            /\ UNCHANGED categories
       ELSE IF parent # 0 /\ parent \notin DOMAIN categories
       THEN /\ last' = Answer("createcategory", 400, 0, 0, 0)
            /\ UNCHANGED categories
       ELSE /\ categories' = categories @@
                                (FreshCategory :> [NewCategory EXCEPT !.parent = parent])
            /\ last' = Answer("createcategory", 201, FreshCategory, 0, 0)
    /\ UNCHANGED <<games, reviews, users, guides, posted, only, played>>

\* PUT /api/categories/:id after protect: Object.assign(category, req.body)
\* with isActive in the body, then save
PutCategoryHandler(actor, c, isActive) ==
    /\ IF authorize({"admin"}, actor) # 0
       THEN /\ last' = Answer("putcategory", authorize({"admin"}, actor), 0, 0, 0)
            /\ UNCHANGED categories
       ELSE IF c \notin DOMAIN categories
       THEN /\ last' = Answer("putcategory", 404, 0, 0, 0)
            /\ UNCHANGED categories
       ELSE /\ categories' = [categories EXCEPT ![c].isActive = isActive]
            /\ last' = Answer("putcategory", 200, c, 0, 0)
    /\ UNCHANGED <<games, reviews, users, guides, posted, only, played>>

\* variant: the games are not counted
DeleteCategoryHandlerUnchecked(actor, c) ==
    /\ IF authorize({"admin"}, actor) # 0
       THEN /\ last' = Answer("deletecategory", authorize({"admin"}, actor), 0, 0, 0)
            /\ UNCHANGED categories
       ELSE IF c \notin DOMAIN categories
       THEN /\ last' = Answer("deletecategory", 404, c, 0, 0)
            /\ UNCHANGED categories
       ELSE IF \E k \in DOMAIN categories : categories[k].parent = c
       THEN /\ last' = Answer("deletecategory", 400, c, 0, 0)
            /\ UNCHANGED categories
       ELSE /\ categories' = [k \in DOMAIN categories \ {c} |-> categories[k]]
            /\ last' = Answer("deletecategory", 200, c, 0, 0)
    /\ UNCHANGED <<games, reviews, users, guides, posted, only, played>>

\* DELETE /api/categories/:id after protect: refused while a game or a child
\* category uses it.  last.target is the id asked for.
DeleteCategoryHandler(actor, c) ==
    /\ IF authorize({"admin"}, actor) # 0
       THEN /\ last' = Answer("deletecategory", authorize({"admin"}, actor), 0, 0, 0)
            /\ UNCHANGED categories
       ELSE IF c \notin DOMAIN categories
       THEN /\ last' = Answer("deletecategory", 404, c, 0, 0)
            /\ UNCHANGED categories
       ELSE IF \/ \E g \in Games : games[g].category = c
               \/ \E k \in DOMAIN categories : categories[k].parent = c
       THEN /\ last' = Answer("deletecategory", 400, c, 0, 0)
            /\ UNCHANGED categories
       ELSE /\ categories' = [k \in DOMAIN categories \ {c} |-> categories[k]]
            /\ last' = Answer("deletecategory", 200, c, 0, 0)
    /\ UNCHANGED <<games, reviews, users, guides, posted, only, played>>

Difficulties == {"easy", "medium", "hard"}

\* POST /api/guides after protect (title, game and content are not empty)
CreateGuideHandler(actor, difficulty) ==
    /\ IF authorize({"admin"}, actor) # 0
       THEN /\ last' = Answer("createguide", authorize({"admin"}, actor), 0, 0, 0)
            /\ UNCHANGED guides
       ELSE IF difficulty \notin Difficulties
       THEN /\ last' = Answer("createguide", 400, 0, 0, 0)
            /\ UNCHANGED guides
       ELSE /\ guides' = Append(guides, difficulty)
            /\ last' = Answer("createguide", 201, 0, 0, 0)
    /\ UNCHANGED <<games, reviews, users, categories, posted, only, played>>

\* GET /api/users after protect; last.a is the total it reports
ListUsersHandler(actor) ==
    /\ last' = IF authorize({"admin"}, actor) # 0
               THEN Answer("listusers", authorize({"admin"}, actor), 0, 0, 0)
               ELSE Answer("listusers", 200, 0, Cardinality(Users), 0)
    /\ UNCHANGED <<games, reviews, users, categories, guides, posted, only, played>>

Roles == {"user", "moderator", "admin"}

\* PUT /api/users/:id/role after protect
ChangeRoleHandler(actor, id, role) ==
    /\ IF authorize({"admin"}, actor) # 0
       THEN /\ last' = Answer("changerole", authorize({"admin"}, actor), 0, 0, 0)
            /\ UNCHANGED users
       ELSE IF role \notin Roles
       THEN /\ last' = Answer("changerole", 400, 0, 0, 0)
            /\ UNCHANGED users
       ELSE IF id \notin Users
       THEN /\ last' = Answer("changerole", 404, 0, 0, 0)
            /\ UNCHANGED users
       ELSE /\ users' = [users EXCEPT ![id].role = role]
            /\ last' = Answer("changerole", 200, id, 0, 0)
    /\ UNCHANGED <<games, reviews, categories, guides, posted, only, played>>

\* GET /api/auth/verify/:token (no protect) with the token number t
Verify(t) ==
    /\ ops > 0
    /\ ops' = ops - 1
    /\ cred' = NoToken
    /\ LET found == {u \in Users : users[u].verificationToken = sha256(t)
                                    /\ ~users[u].isVerified}
       IN IF found = {}
          THEN /\ last' = Answer("verify", 400, 0, t, 0)
               /\ UNCHANGED <<users, trail>>
          ELSE LET u == CHOOSE v \in found : TRUE
               IN /\ users' = [users EXCEPT ![u].isVerified = TRUE,
                                            ![u].verificationToken = Unset]
                  /\ last' = Answer("verify", 200, u, t, 0)
                  /\ trail' = trail \cup {<<"verify", u, 0>>, <<"verified with", t, 0>>}
    /\ UNCHANGED <<games, reviews, categories, guides, posted, only, played, procs,
                   now, issued>>

\* the tokens a request is tried with: none, a bad one, and a verifying one
\* for every id that was ever registered (a verifying token of an unverified
\* user is not handed out by login, but protect is written for it)
Tokens == {NoToken, BadToken} \cup {TokenOf(u) : u \in 1..AccessUsers}

\* the request parameters tried
AccessBodies == {body \in GameBodies : body.status = "inactive"}

AccessRoles == {"moderator", "admin", "owner"}

AccessDifficulties == {"easy", "extreme"}

\* the routes behind protect: protect answers 401 itself, or the rest of the
\* chain runs with req.user = users[c.id]
CreateGameRequest(c, cat) ==
    /\ Receive(c)
    /\ IF protect(c) # 0 THEN Refused("creategame", protect(c)) ELSE CreateGameHandler(c.id, cat)

PutGameRequest(c, g, body) ==
    /\ Receive(c)
    /\ IF protect(c) # 0 THEN Refused("putgame", protect(c)) ELSE PutGameHandler(c.id, g, body)

DeleteGameRequest(c, g) ==
    /\ Receive(c)
    /\ IF protect(c) # 0 THEN Refused("deletegame", protect(c)) ELSE DeleteGameHandler(c.id, g)

CreateCategoryRequest(c, parent) ==
    /\ Receive(c)
    /\ IF protect(c) # 0 THEN Refused("createcategory", protect(c)) ELSE CreateCategoryHandler(c.id, parent)

PutCategoryRequest(c, k, isActive) ==
    /\ Receive(c)
    /\ IF protect(c) # 0 THEN Refused("putcategory", protect(c)) ELSE PutCategoryHandler(c.id, k, isActive)

DeleteCategoryRequest(c, k) ==
    /\ Receive(c)
    /\ IF protect(c) # 0 THEN Refused("deletecategory", protect(c)) ELSE DeleteCategoryHandler(c.id, k)

CategoryStatsRequest(c, k) ==
    /\ Receive(c)
    /\ IF protect(c) # 0 THEN Refused("catstats", protect(c)) ELSE CategoryStatsHandler(c.id, k)

CreateGuideRequest(c, difficulty) ==
    /\ Receive(c)
    /\ IF protect(c) # 0 THEN Refused("createguide", protect(c)) ELSE CreateGuideHandler(c.id, difficulty)

ListUsersRequest(c) ==
    /\ Receive(c)
    /\ IF protect(c) # 0 THEN Refused("listusers", protect(c)) ELSE ListUsersHandler(c.id)

ChangeRoleRequest(c, id, role) ==
    /\ Receive(c)
    /\ IF protect(c) # 0 THEN Refused("changerole", protect(c)) ELSE ChangeRoleHandler(c.id, id, role)

DeleteAccountRequest(c, passwordMatches) ==
    /\ Receive(c)
    /\ IF protect(c) # 0 THEN Refused("deleteaccount", protect(c)) ELSE DeleteAccountHandler(c.id, passwordMatches)

NextAccess ==
    \/ \E c \in Tokens, cat \in {0} \cup DOMAIN categories : CreateGameRequest(c, cat)
    \/ \E c \in Tokens, g \in Games, body \in AccessBodies : PutGameRequest(c, g, body)
    \/ \E c \in Tokens, g \in Games : DeleteGameRequest(c, g)
    \/ \E c \in Tokens, parent \in {0} \cup DOMAIN categories : CreateCategoryRequest(c, parent)
    \/ \E c \in Tokens, k \in DOMAIN categories : PutCategoryRequest(c, k, FALSE)
    \/ \E c \in Tokens, k \in DOMAIN categories : DeleteCategoryRequest(c, k)
    \/ \E c \in Tokens, k \in DOMAIN categories : CategoryStatsRequest(c, k)
    \/ \E c \in Tokens, difficulty \in AccessDifficulties : CreateGuideRequest(c, difficulty)
    \/ \E c \in Tokens : ListUsersRequest(c)
    \/ \E c \in Tokens, id \in Users, role \in AccessRoles : ChangeRoleRequest(c, id, role)
    \/ \E c \in Tokens, passwordMatches \in BOOLEAN : DeleteAccountRequest(c, passwordMatches)
    \/ \E t \in 1..(issued.tokens + 1) : Verify(t)

\* user 1 is the admin, the last user to register has not followed the
\* verification link (token 1) yet
InitAccess ==
    InitStore([u \in 1..AccessUsers |->
                  IF u < AccessUsers THEN NewUser(u)
                  ELSE [NewUser(u) EXCEPT !.isVerified = FALSE,
                                          !.verificationToken = sha256(1)]],
              AccessGames, MaxAccessOps)

SpecAccess == InitAccess /\ [][NextAccess]_vars

\* ---- games are created while categories are created and deleted ----

\* the tokens of the users that are logged in
TreeTokens == {TokenOf(u) : u \in Users}

\* the category ids asked for: the stored ones and one that is not stored
TreeIds == DOMAIN categories \cup {FreshCategory}

NextTree ==
    \/ \E c \in TreeTokens, cat \in {0} \cup TreeIds : CreateGameRequest(c, cat)
    \/ \E c \in TreeTokens, parent \in {0} \cup TreeIds : CreateCategoryRequest(c, parent)
    \/ \E c \in TreeTokens, k \in TreeIds : DeleteCategoryRequest(c, k)

InitTree == InitWith(TreeUsers, TreeGames, MaxTreeOps)

SpecTree == InitTree /\ [][NextTree]_vars

\* ---- accounts: registration, verification, login, password reset ----

\* the user names and the e-mail addresses requests are tried with
Names == 1..AuthNames

\* the passwords tried; 0 stands for one that fails the format check
Passwords == {1, 2}

\* minutes until a reset token expires (10 * 60 * 1000 ms)
ResetMinutes == 10

\* the clock is looked at every 5 minutes
TickMinutes == 5

\* the document User.create makes, after getVerificationToken and save
RegisteredUser(username, email, password, t) ==
    [role |-> "user", isVerified |-> FALSE,
     reviewsPosted |-> 0, gamesPlayed |-> 0, favoriteCategories |-> {},
     username |-> username, email |-> email, password |-> bcrypt(password),
     verificationToken |-> sha256(t), resetPasswordToken |-> Unset,
     resetPasswordExpire |-> 0]

\* variant: the user stays when the mail could not be sent
RegisterNoRollback(username, email, password, limited, sent) ==
    /\ ops > 0
    /\ ops' = ops - 1
    /\ cred' = NoToken
    /\ IF limited
       THEN /\ last' = Answer("register", 429, 0, username, email)
            /\ UNCHANGED <<users, issued, trail>>
       ELSE IF \E u \in Users : users[u].email = email \/ users[u].username = username
       THEN /\ last' = Answer("register", 400, 0, username, email)
            /\ UNCHANGED <<users, issued, trail>>
       ELSE LET id == issued.ids + 1
                t == issued.tokens + 1
            IN /\ issued' = [ids |-> id, tokens |-> t]
               /\ users' = users @@ (id :> RegisteredUser(username, email, password, t))
               /\ last' = Answer("register", IF sent THEN 201 ELSE 500, id, username, email)
               /\ trail' = IF sent THEN trail
                           ELSE trail \cup {<<"mail failed", username, email>>}
    /\ UNCHANGED <<games, reviews, categories, guides, posted, only, played, procs, now>>

\* POST /api/auth/register with a well-formed body; limited: registerLimiter
\* answers 429; sent: sendEmail delivered the verification mail (else it
\* threw).  The new user gets the next id and the next random token.
Register(username, email, password, limited, sent) ==
    /\ ops > 0
    /\ ops' = ops - 1
    /\ cred' = NoToken
    /\ IF limited
       THEN /\ last' = Answer("register", 429, 0, username, email)
            /\ UNCHANGED <<users, issued, trail>>
       ELSE IF \E u \in Users : users[u].email = email \/ users[u].username = username
       THEN /\ last' = Answer("register", 400, 0, username, email)
            /\ UNCHANGED <<users, issued, trail>>
       ELSE LET id == issued.ids + 1
                t == issued.tokens + 1
                created == users @@ (id :> RegisteredUser(username, email, password, t))
            IN /\ issued' = [ids |-> id, tokens |-> t]
               /\ IF sent
                  THEN /\ users' = created
                       /\ last' = Answer("register", 201, id, username, email)
                       /\ UNCHANGED trail
                  ELSE /\ users' = [u \in DOMAIN created \ {id} |-> created[u]]
                       /\ last' = Answer("register", 500, id, username, email)
                       /\ trail' = trail \cup {<<"mail failed", username, email>>}
    /\ UNCHANGED <<games, reviews, categories, guides, posted, only, played, procs, now>>

\* variant: the verification test is left out
LoginUnverified(email, password, limited) ==
    /\ ops > 0
    /\ ops' = ops - 1
    /\ cred' = NoToken
    /\ LET found == {u \in Users : users[u].email = email}
       IN IF limited
          THEN last' = Answer("login", 429, 0, 0, 0) /\ UNCHANGED trail
          ELSE IF found = {}
          THEN last' = Answer("login", 401, 0, 0, 0) /\ UNCHANGED trail
          ELSE LET u == CHOOSE v \in found : TRUE
               IN IF ~matchPassword(users[u], password)
                  THEN last' = Answer("login", 401, u, 0, 0) /\ UNCHANGED trail
                  ELSE /\ last' = Answer("login", 200, u, 0, 0)
                       /\ trail' = trail \cup {<<"login", u, 0>>}
    /\ UNCHANGED <<games, reviews, users, categories, guides, posted, only, played, procs,
                   now, issued>>

\* POST /api/auth/login; limited: loginLimiter answers 429.  The 200 answer
\* carries TokenOf(last.target); updateLastLogin only writes a timestamp.
Login(email, password, limited) ==
    /\ ops > 0
    /\ ops' = ops - 1
    /\ cred' = NoToken
    /\ LET found == {u \in Users : users[u].email = email}
       IN IF limited
          THEN last' = Answer("login", 429, 0, 0, 0) /\ UNCHANGED trail
          ELSE IF found = {}
          THEN last' = Answer("login", 401, 0, 0, 0) /\ UNCHANGED trail
          ELSE LET u == CHOOSE v \in found : TRUE
               IN IF ~matchPassword(users[u], password)
                  THEN last' = Answer("login", 401, u, 0, 0) /\ UNCHANGED trail
                  ELSE IF ~users[u].isVerified
                  THEN last' = Answer("login", 401, u, 0, 0) /\ UNCHANGED trail
                  ELSE /\ last' = Answer("login", 200, u, 0, 0)
                       /\ trail' = trail \cup {<<"login", u, 0>>}
    /\ UNCHANGED <<games, reviews, users, categories, guides, posted, only, played, procs,
                   now, issued>>

\* POST /api/auth/forgot-password; sent: sendEmail delivered the reset mail.
\* last.a is the token number drawn, last.b the expiry set.
ForgotPassword(email, sent) ==
    /\ ops > 0
    /\ ops' = ops - 1
    /\ cred' = NoToken
    /\ LET found == {u \in Users : users[u].email = email}
       IN IF found = {}
          THEN /\ last' = Answer("forgot", 404, 0, 0, 0)
               /\ UNCHANGED <<users, issued, trail>>
          ELSE LET u == CHOOSE v \in found : TRUE
                   t == issued.tokens + 1
               IN /\ issued' = [issued EXCEPT !.tokens = t]
                  /\ IF sent
                     THEN /\ users' = [users EXCEPT
                                          ![u].resetPasswordToken = sha256(t),
                                          ![u].resetPasswordExpire = now + ResetMinutes]
                          /\ last' = Answer("forgot", 200, u, t, now + ResetMinutes)
                          /\ trail' = trail \cup {<<"reset token", t, now>>}
                     ELSE /\ users' = [users EXCEPT ![u].resetPasswordToken = Unset,
                                                    ![u].resetPasswordExpire = 0]
                          /\ last' = Answer("forgot", 500, u, t, 0)
                          /\ UNCHANGED trail
    /\ UNCHANGED <<games, reviews, categories, guides, posted, only, played, procs, now>>

\* variant: the expiry is not looked at
ResetPasswordNoExpiry(t, password) ==
    /\ ops > 0
    /\ ops' = ops - 1
    /\ cred' = NoToken
    /\ LET found == {u \in Users : users[u].resetPasswordToken = sha256(t)}
       IN IF password \notin Passwords \/ found = {}
          THEN /\ last' = Answer("reset", 400, 0, t, 0)
               /\ UNCHANGED <<users, trail>>
          ELSE LET u == CHOOSE v \in found : TRUE
               IN /\ users' = [users EXCEPT ![u].password = bcrypt(password),
                                            ![u].resetPasswordToken = Unset,
                                            ![u].resetPasswordExpire = 0]
                  /\ last' = Answer("reset", 200, u, t, 0)
                  /\ trail' = trail \cup {<<"reset with", t, 0>>}
    /\ UNCHANGED <<games, reviews, categories, guides, posted, only, played, procs,
                   now, issued>>

\* PUT /api/auth/reset-password/:token with the token number t; an undefined
\* resetPasswordExpire (0 here) is not $gt any Date.now()
ResetPassword(t, password) ==
    /\ ops > 0
    /\ ops' = ops - 1
    /\ cred' = NoToken
    /\ LET found == {u \in Users : /\ users[u].resetPasswordToken = sha256(t)
                                    /\ users[u].resetPasswordExpire > now}
       IN IF password \notin Passwords \/ found = {}
          THEN /\ last' = Answer("reset", 400, 0, t, 0)
               /\ UNCHANGED <<users, trail>>
          ELSE LET u == CHOOSE v \in found : TRUE
               IN /\ users' = [users EXCEPT ![u].password = bcrypt(password),
                                            ![u].resetPasswordToken = Unset,
                                            ![u].resetPasswordExpire = 0]
                  /\ last' = Answer("reset", 200, u, t, 0)
                  /\ trail' = trail \cup {<<"reset with", t, 0>>}
    /\ UNCHANGED <<games, reviews, categories, guides, posted, only, played, procs,
                   now, issued>>

\* time passes between two requests
Tick ==
    /\ now + TickMinutes <= MaxMinutes
    /\ now' = now + TickMinutes
    /\ UNCHANGED <<games, reviews, users, categories, guides, ops, last, cred, posted, only,
                   played, procs, issued, trail>>

NextAuth ==
    \/ \E username \in Names, email \in Names, limited \in BOOLEAN, sent \in BOOLEAN :
            Register(username, email, 1, limited, sent)
    \/ \E t \in 1..(issued.tokens + 1) : Verify(t)
    \/ \E email \in Names, password \in Passwords, limited \in BOOLEAN :
            Login(email, password, limited)
    \/ \E email \in Names, sent \in BOOLEAN : ForgotPassword(email, sent)
    \/ \E t \in 1..(issued.tokens + 1), password \in {0, 2} : ResetPassword(t, password)
    \/ Tick

\* one account (username 1, email 1, password 1) has registered and was mailed
\* its verification link (token 1)
InitAuth == InitStore([u \in {1} |-> RegisteredUser(1, 1, 1, 1)], 0, MaxAuthOps)

SpecAuth == InitAuth /\ [][NextAuth]_vars

\* ---- helpful votes on reviews ----

\* the elements of an array
Members(arr) == {arr[i] : i \in 1..Len(arr)}

\* Array.prototype.indexOf, 1-based; 0 when x is not in the array
IndexOf(arr, x) ==
    IF x \in Members(arr) THEN CHOOSE i \in 1..Len(arr) : arr[i] = x /\ \A j \in 1..(i - 1) : arr[j] # x
    ELSE 0

\* arr.splice(i, 1)
Splice(arr, i) == [j \in 1..(Len(arr) - 1) |-> IF j < i THEN arr[j] ELSE arr[j + 1]]

\* reviewSchema.methods.markHelpful: the document as the method leaves it; it
\* is saved exactly when it was changed
markHelpful(doc, userId) ==
    IF userId \notin Members(doc.helpful.users)
    THEN [doc EXCEPT !.helpful = [users |-> Append(doc.helpful.users, userId),
                                  count |-> Len(doc.helpful.users) + 1]]
    ELSE doc

\* reviewSchema.methods.unmarkHelpful
unmarkHelpful(doc, userId) ==
    LET index == IndexOf(doc.helpful.users, userId)
    IN IF index > 0
       THEN [doc EXCEPT !.helpful = [users |-> Splice(doc.helpful.users, index),
                                     count |-> Len(doc.helpful.users) - 1]]
       ELSE doc

\* stands for a review id that matches no stored review
NoSuchReview == Review(0, 0, 0, Absent)

\* POST /api/reviews/:id/helpful by req.user = actor on the review d; the
\* save() inside markHelpful and unmarkHelpful runs reviewSchema.post('save')
ToggleHelpfulHandler(actor, d) ==
    IF ~BagIn(d, reviews)
    THEN /\ last' = Answer("helpful", 404, actor, 0, 0)
         /\ UNCHANGED <<games, reviews, users, categories, posted, only>>
    ELSE LET isHelpful == actor \in Members(d.helpful.users)
             review == IF isHelpful THEN unmarkHelpful(d, actor) ELSE markHelpful(d, actor)
         IN /\ reviews' = Insert(Remove(reviews, d), review)
            /\ games' = IF review # d THEN PostSaveHook(games, review) ELSE games
            /\ last' = Answer("helpful", 200, actor, IF isHelpful THEN 0 ELSE 1,
                              review.helpful.count)
            /\ only' = [only EXCEPT ![d.game] = FALSE]
            /\ posted' = [posted EXCEPT ![d.game] = ZeroDistribution]
            /\ UNCHANGED <<users, categories>>

ToggleHelpful(actor, d) ==
    /\ UNCHANGED <<procs, played, guides, cred, now, issued, trail>>
    /\ ops > 0
    /\ ops' = ops - 1
    /\ Explored(actor)
    /\ ToggleHelpfulHandler(actor, d)

\* the values a request body can give the helpful key: any count with any
\* array of user ids
HelpfulValues ==
    [count : 0..HelpfulUsers,
     users : {<<>>} \cup {<<u>> : u \in Users} \cup {<<u, v>> : u \in Users, v \in Users}]

\* bodies of PUT /api/reviews/:id that carry only a helpful key
HelpfulBodies ==
    [rating : {0}, asString : {FALSE}, status : {Absent},
     helpful : {<<h>> : h \in HelpfulValues}]

HelpfulStars == {MaxStar}

NextHelpful ==
    \/ \E u \in Users, g \in Games, r \in HelpfulStars : PostReview(u, g, r)
    \/ \E u \in Users, d \in BagToSet(reviews) \cup {NoSuchReview} : ToggleHelpful(u, d)
    \/ \E u \in Users, d \in BagToSet(reviews), body \in HelpfulBodies : PutReview(u, d, body)

InitHelpful == InitWith(HelpfulUsers, HelpfulGames, MaxHelpfulOps)

SpecHelpful == InitHelpful /\ [][NextHelpful]_vars

\* ---- favorite toggles, one at a time, on games of one category ----
NextToggles == \E u \in Users, g \in Games : ToggleFavoriteAnswered(u, g)

InitToggles == InitWith(ToggleUsers, ToggleGames, MaxAnswers)

SpecToggles == InitToggles /\ [][NextToggles]_vars

\* ---- interleaved traffic: two requests in flight, one step per await ----

\* protect has loaded req.user; the handler of POST /api/reviews starts
StartReview(p, u, g, r) ==
    /\ procs[p].pc = "idle"
    /\ ops > 0
    /\ Explored(u)
    /\ ops' = ops - 1
    /\ procs' = [procs EXCEPT ![p] = [Idle EXCEPT !.pc = "findGame", !.u = u, !.g = g,
                                                  !.r = r, !.me = users[u]]]
    /\ UNCHANGED <<games, reviews, users, categories, last, posted, only, played, guides, cred, now, issued, trail>>

\* const gameExists = await Game.findById(game)
ReviewFindGame(p) ==
    /\ procs[p].pc = "findGame"
    /\ procs' = [procs EXCEPT ![p].pc = "findExisting", ![p].gameExists = games[procs[p].g]]
    /\ UNCHANGED <<games, reviews, users, categories, ops, last, posted, only, played, guides, cred, now, issued, trail>>

\* const existingReview = await Review.findOne({game, user, status: 'active'})
ReviewFindExisting(p) ==
    /\ procs[p].pc = "findExisting"
    /\ IF \E d \in ActiveReviews(reviews, procs[p].g) : d.user = procs[p].u
       THEN /\ procs' = [procs EXCEPT ![p] = Idle]
            /\ last' = Answer("post", 400, 0, 0, 0)
       ELSE /\ procs' = [procs EXCEPT ![p].pc = "create"]
            /\ UNCHANGED last
    /\ UNCHANGED <<games, reviews, users, categories, ops, posted, only, played, guides, cred, now, issued, trail>>

\* await Review.create(...): the insert, up to the hook's first await
ReviewCreate(p) ==
    /\ procs[p].pc = "create"
    /\ reviews' = Insert(reviews, Review(procs[p].g, procs[p].u, procs[p].r, "active"))
    /\ posted' = [posted EXCEPT ![procs[p].g][procs[p].r] = @ + 1]
    /\ procs' = [procs EXCEPT ![p].pc = "hookFind"]
    /\ UNCHANGED <<games, users, categories, ops, last, only, played, guides, cred, now, issued, trail>>

\* post('save'): const game = await Game.findById(this.game)
ReviewHookFind(p) ==
    /\ procs[p].pc = "hookFind"
    /\ procs' = [procs EXCEPT ![p].pc = "hookSave", ![p].game = games[procs[p].g]]
    /\ UNCHANGED <<games, reviews, users, categories, ops, last, posted, only, played, guides, cred, now, issued, trail>>

\* post('save'): await game.updateRating(this.rating)
ReviewHookSave(p) ==
    /\ procs[p].pc = "hookSave"
    /\ games' = [games EXCEPT ![procs[p].g] =
                    SaveGame(games[procs[p].g], procs[p].game,
                             updateRating(procs[p].game, procs[p].r))]
    /\ procs' = [procs EXCEPT ![p].pc = "incrementReviewStats"]
    /\ UNCHANGED <<reviews, users, categories, ops, last, posted, only, played, guides, cred, now, issued, trail>>

\* await req.user.incrementReviewStats()
ReviewIncrementStats(p) ==
    /\ procs[p].pc = "incrementReviewStats"
    /\ users' = [users EXCEPT ![procs[p].u].reviewsPosted = procs[p].me.reviewsPosted + 1]
    /\ procs' = [procs EXCEPT ![p].pc = "updateRating"]
    /\ UNCHANGED <<games, reviews, categories, ops, last, posted, only, played, guides, cred, now, issued, trail>>

\* await gameExists.updateRating(rating), then the 201 answer
ReviewUpdateRating(p) ==
    /\ procs[p].pc = "updateRating"
    /\ games' = [games EXCEPT ![procs[p].g] =
                    SaveGame(games[procs[p].g], procs[p].gameExists,
                             updateRating(procs[p].gameExists, procs[p].r))]
    /\ last' = Answer("post", 201, 0, 0, 0)
    /\ procs' = [procs EXCEPT ![p] = Idle]
    /\ UNCHANGED <<reviews, users, categories, ops, posted, only, played, guides, cred, now, issued, trail>>

\* protect has loaded req.user; the handler of POST /api/games/:id/favorite starts
StartFavorite(p, u, g) ==
    /\ procs[p].pc = "idle"
    /\ ops > 0
    /\ Explored(u)
    /\ ops' = ops - 1
    /\ procs' = [procs EXCEPT ![p] = [Idle EXCEPT !.pc = "favoriteFind", !.u = u, !.g = g,
                                                  !.me = users[u]]]
    /\ UNCHANGED <<games, reviews, users, categories, last, posted, only, played, guides, cred, now, issued, trail>>

\* const game = await Game.findById(req.params.id)
FavoriteFind(p) ==
    /\ procs[p].pc = "favoriteFind"
    /\ procs' = [procs EXCEPT ![p].pc = "favoriteSave", ![p].game = games[procs[p].g]]
    /\ UNCHANGED <<games, reviews, users, categories, ops, last, posted, only, played, guides, cred, now, issued, trail>>

\* isFavorited is read off req.user; await game.decrementFavorites() or
\* await game.incrementFavorites().  last.a is the counter the handler loaded,
\* last.b the one it holds after the call.
FavoriteSave(p) ==
    /\ procs[p].pc = "favoriteSave"
    /\ LET game == procs[p].game
           isFavorited == game.category \in procs[p].me.favoriteCategories
           doc == IF isFavorited THEN decrementFavorites(game) ELSE incrementFavorites(game)
       IN /\ games' = [games EXCEPT ![procs[p].g] = SaveGame(games[procs[p].g], game, doc)]
          /\ procs' = [procs EXCEPT ![p].pc = "favoriteUserSave", ![p].game = doc]
          /\ last' = Answer(IF isFavorited THEN "decrementFavorites" ELSE "incrementFavorites",
                            200, procs[p].g, game.stats.favoriteCount, doc.stats.favoriteCount)
    /\ UNCHANGED <<reviews, users, categories, ops, posted, only, played, guides, cred, now, issued, trail>>

\* await req.user.save(): the pushed category is added to the stored array, the
\* filtered array replaces it (the array's version key is not modelled)
FavoriteUserSave(p) ==
    /\ procs[p].pc = "favoriteUserSave"
    /\ LET cat == games[procs[p].g].category
           mine == procs[p].me.favoriteCategories
       IN users' = [users EXCEPT ![procs[p].u].favoriteCategories =
                        IF procs[p].game.category \in mine
                        THEN mine \ {procs[p].game.category}
                        ELSE @ \cup {procs[p].game.category}]
    /\ procs' = [procs EXCEPT ![p] = Idle]
    /\ UNCHANGED <<games, reviews, categories, ops, last, posted, only, played, guides, cred, now, issued, trail>>

NextConc ==
    \/ \E p \in Procs, u \in Users, g \in Games, r \in Stars : StartReview(p, u, g, r)
    \/ \E p \in Procs : ReviewFindGame(p)
    \/ \E p \in Procs : ReviewFindExisting(p)
    \/ \E p \in Procs : ReviewCreate(p)
    \/ \E p \in Procs : ReviewHookFind(p)
    \/ \E p \in Procs : ReviewHookSave(p)
    \/ \E p \in Procs : ReviewIncrementStats(p)
    \/ \E p \in Procs : ReviewUpdateRating(p)

InitConc == InitWith(ConcUsers, ConcGames, MaxRequests)

SpecConc == InitConc /\ [][NextConc]_vars

NextFavorites ==
    \/ \E p \in Procs, u \in Users, g \in Games : StartFavorite(p, u, g)
    \/ \E p \in Procs : FavoriteFind(p)
    \/ \E p \in Procs : FavoriteSave(p)
    \/ \E p \in Procs : FavoriteUserSave(p)

InitFavorites == InitWith(FavoriteUsers, FavoriteGames, MaxToggles)

SpecFavorites == InitFavorites /\ [][NextFavorites]_vars

\* ---- what the stored reviews say, counted directly from the collection ----
ActiveWithIn(rv, g, s) ==
    LET S == {d \in BagToSet(rv) : d.game = g /\ d.rating = s /\ d.status = "active"}
    IN SumOver(S, [d \in S |-> CopiesIn(d, rv)])

ActiveCountIn(rv, g) == SumOver(Stars, [s \in Stars |-> ActiveWithIn(rv, g, s)])

ActiveSumIn(rv, g) == SumOver(Stars, [s \in Stars |-> s * ActiveWithIn(rv, g, s)])

ActiveWith(g, s) == ActiveWithIn(reviews, g, s)

ActiveCount(g) == ActiveCountIn(reviews, g)

ActiveSum(g) == ActiveSumIn(reviews, g)

\* avg = sum / n, for n > 0
IsMean(avg, sum, n) == avg.n * n = sum * avg.d

Weighted(dist) == dist[1] + 2 * dist[2] + 3 * dist[3] + 4 * dist[4] + 5 * dist[5]

\* C1: after N successful submissions by distinct users, one at a time, to a
\* game that had no reviews, rating.count is N, the distribution holds exactly
\* the submitted ratings and rating.average is their mean.
C1_CountAndMeanOfSubmissions ==
    \A g \in Games :
        LET n == posted[g][1] + posted[g][2] + posted[g][3] + posted[g][4] + posted[g][5]
        IN only[g] =>
            /\ games[g].rating.count = n
            /\ games[g].rating.distribution = posted[g]
            /\ n > 0 => IsMean(games[g].rating.average, Weighted(posted[g]), n)
            /\ n = 0 => games[g].rating.average = Zero

\* ratings 5,5,5,1 were submitted: count 4, average 4.0, distribution {1:1, 5:3}
C1_Witness ==
    \E g \in Games :
        /\ only[g]
        /\ posted[g] = [s \in Stars |-> IF s = 1 THEN 1 ELSE IF s = 5 THEN 3 ELSE 0]
        /\ games[g].rating = [average |-> [n |-> 4, d |-> 1], count |-> 4,
                              distribution |-> posted[g]]

\* C2: in every state reached by review creations, edits and deletions the
\* five distribution buckets of a game add up to its rating.count.
C2_DistributionSumsToCount ==
    \A g \in Games :
        games[g].rating.distribution[1] + games[g].rating.distribution[2]
          + games[g].rating.distribution[3] + games[g].rating.distribution[4]
          + games[g].rating.distribution[5] = games[g].rating.count

\* a review was created, edited and then deleted
C2_Witness ==
    /\ last.op = "delete" /\ last.code = 200
    /\ \E g \in Games : ~only[g] /\ games[g].rating.count = 2 /\ ActiveCount(g) = 0

\* C3 (as claimed): once a deletion has removed the last review of a game, the
\* game's rating.average and rating.count are 0.
C3_DeletingAllResets ==
    (last.op = "delete" /\ last.code = 200 /\ last.a # 0) =>
        ((\A d \in BagToSet(reviews) : d.game # last.target) =>
            /\ games[last.target].rating.count = 0
            /\ games[last.target].rating.average = Zero)

\* C6 (as claimed): an edit of an active review from a to b (a # b) on a game
\* whose rating matched its active reviews leaves count unchanged and equal to
\* the number of active reviews, moves one review from bucket a to bucket b,
\* and makes average the mean of the current ratings.
C6_EditMovesOneReview ==
    [][(last'.op = "put" /\ last'.code = 200 /\ last'.a # 0 /\ last'.a # last'.b) =>
        LET g == last'.target
            old == games[g].rating
            new == games'[g].rating
        IN (old.count = ActiveCount(g) /\ \A s \in Stars : old.distribution[s] = ActiveWith(g, s))
            => /\ new.count = old.count
               /\ new.count = ActiveCountIn(reviews', g)
               /\ new.distribution[last'.a] = old.distribution[last'.a] - 1
               /\ new.distribution[last'.b] = old.distribution[last'.b] + 1
               /\ IsMean(new.average, ActiveSumIn(reviews', g), new.count)]_vars

\* C7: after the deletion of an active review that leaves at least one active
\* review of the game, count, distribution and average are those of exactly
\* the remaining active reviews of that game.
C7_DeleteRebuildsFromRemaining ==
    (last.op = "delete" /\ last.code = 200 /\ last.a # 0 /\ ActiveCount(last.target) > 0) =>
        LET g == last.target
        IN /\ games[g].rating.count = ActiveCount(g)
           /\ \A s \in Stars : games[g].rating.distribution[s] = ActiveWith(g, s)
           /\ IsMean(games[g].rating.average, ActiveSum(g), ActiveCount(g))

\* an active review was deleted and another active review of the game remains
C7_Witness ==
    /\ last.op = "delete" /\ last.code = 200 /\ last.a # 0
    /\ ActiveCount(last.target) >= 1
    /\ games[last.target].rating.count = ActiveCount(last.target)
    /\ games[last.target].rating.distribution[last.a] = ActiveWith(last.target, last.a)

\* C8: whenever rating.count > 0, rating.average is the distribution's
\* weighted sum divided by rating.count.
C8_AverageIsWeightedMean ==
    \A g \in Games :
        games[g].rating.count > 0 =>
            games[g].rating.average.n * games[g].rating.count
                = Weighted(games[g].rating.distribution) * games[g].rating.average.d

\* a game whose average is not a whole number, after an updateRating
C8_Witness ==
    /\ last.op = "put" /\ last.code = 200
    /\ games[last.target].rating.count = 2
    /\ games[last.target].rating.average.d = 2

\* C9: ratingLevel is the step function of rating.average with inclusive
\* thresholds 4.5, 4.0, 3.5, 3.0; reviews 5,5,5,1 give 'very-good'.
C9_RatingLevelSteps ==
    \A g \in Games :
        LET avg == games[g].rating.average
            level == ratingLevel(games[g])
            AtLeast(p, q) == avg.n * q >= p * avg.d
        IN /\ level \in {"excellent", "very-good", "good", "fair", "poor"}
           /\ level = "excellent" <=> AtLeast(45, 10)
           /\ level = "very-good" <=> (AtLeast(40, 10) /\ ~AtLeast(45, 10))
           /\ level = "good" <=> (AtLeast(35, 10) /\ ~AtLeast(40, 10))
           /\ level = "fair" <=> (AtLeast(30, 10) /\ ~AtLeast(35, 10))
           /\ level = "poor" <=> ~AtLeast(30, 10)
           /\ avg = [n |-> 9, d |-> 2] => level = "excellent"
           /\ avg = [n |-> 13, d |-> 3] => level = "very-good"
           /\ avg = [n |-> 3, d |-> 1] => level = "fair"
           /\ avg = Zero => level = "poor"

\* the game with reviews 5,5,5,1 is 'very-good', another game sits exactly on 4.5
C9_Witness ==
    /\ \E g \in Games :
        /\ games[g].rating.distribution = [s \in Stars |-> IF s = 1 THEN 1
                                                            ELSE IF s = 5 THEN 3 ELSE 0]
        /\ ratingLevel(games[g]) = "very-good"

Quiescent == \A p \in Procs : procs[p].pc = "idle"

\* every stored review has its own author
DistinctAuthors ==
    \A d \in BagToSet(reviews) :
        /\ CopiesIn(d, reviews) = 1
        /\ \A e \in BagToSet(reviews) : (e.game = d.game /\ e.user = d.user) => e = d

\* C4 (as claimed): when review submissions by different users for a game ran
\* concurrently and all have finished, none is lost: rating.count is the
\* number of reviews created, each created rating is in the distribution, and
\* average is the mean of the submitted ratings.
C4_NoLostUpdate ==
    (Quiescent /\ DistinctAuthors) =>
        \A g \in Games :
            LET n == posted[g][1] + posted[g][2] + posted[g][3] + posted[g][4] + posted[g][5]
            IN /\ games[g].rating.count = n
               /\ games[g].rating.distribution = posted[g]
               /\ n > 0 => IsMean(games[g].rating.average, Weighted(posted[g]), n)

\* C5: favoriteCount is never negative, in the store or in a document a
\* handler holds, whatever the interleaving; decrementFavorites on a game
\* whose counter is 0 leaves it 0 and the request is answered normally.
C5_FavoriteCountFloor ==
    /\ \A g \in Games : games[g].stats.favoriteCount >= 0
    /\ \A p \in Procs : procs[p].game.stats.favoriteCount >= 0
    /\ (last.op = "decrementFavorites" /\ last.a = 0) => (last.b = 0 /\ last.code = 200)
    /\ (last.op = "decrementFavorites" /\ last.a > 0) => last.b = last.a - 1

\* decrementFavorites ran on a game whose counter was 0
C5_Witness ==
    /\ last.op = "decrementFavorites" /\ last.a = 0
    /\ games[last.target].stats.favoriteCount = 0

RECURSIVE ProdOver(_, _)
ProdOver(S, f) ==
    IF S = {} THEN 1
    ELSE LET x == CHOOSE y \in S : TRUE IN f[x] * ProdOver(S \ {x}, f)

\* the games a category's rollup is about
ActiveIn(c) == {g \in Games : games[g].category = c /\ games[g].status = "active"}

\* sum of the rating.average of the games in S, as numerator over CommonDen(S)
CommonDen(S) == ProdOver(S, [g \in S |-> games[g].rating.average.d])

SumOfAverages(S) ==
    SumOver(S, [g \in S |-> games[g].rating.average.n
                              * (CommonDen(S) \div games[g].rating.average.d)])

CountsRolledUp(c) ==
    /\ categories[c].stats.gameCount = Cardinality(ActiveIn(c))
    /\ categories[c].stats.totalPlayCount
         = SumOver(ActiveIn(c), [g \in ActiveIn(c) |-> games[g].stats.playCount])
    /\ ActiveIn(c) = {} => categories[c].stats.averageRating = Zero

\* C10 (as claimed): updateStats leaves gameCount, totalPlayCount and the exact
\* unweighted mean of rating.average over the category's active games.
C10_RollupIsExactMean ==
    (last.op = "catstats" /\ last.code = 200) =>
        LET c == last.target
            S == ActiveIn(c)
            avg == categories[c].stats.averageRating
        IN /\ CountsRolledUp(c)
           /\ S # {} => avg.n * Cardinality(S) * CommonDen(S) = avg.d * SumOfAverages(S)

\* C10 (amended): as above, but averageRating is that mean rounded to one
\* decimal place, halves upwards: averageRating = k/10 with
\* k <= 10 * mean + 1/2 < k + 1.
C10_RollupIsRoundedMean ==
    (last.op = "catstats" /\ last.code = 200) =>
        LET c == last.target
            S == ActiveIn(c)
            avg == categories[c].stats.averageRating
            N == SumOfAverages(S)
            D == Cardinality(S) * CommonDen(S)
            k == avg.n * (10 \div avg.d)
        IN /\ CountsRolledUp(c)
           /\ S # {} => /\ 10 % avg.d = 0
                        /\ 2 * k * D <= 20 * N + D
                        /\ 20 * N + D < 2 * (k + 1) * D

\* two active games with averages 4.0 and 2.0 roll up to 3.0
C10_Witness ==
    /\ last.op = "catstats" /\ last.code = 200
    /\ \E g, h \in ActiveIn(last.target) :
        /\ games[g].rating.average = [n |-> 4, d |-> 1]
        /\ games[h].rating.average = [n |-> 2, d |-> 1]
    /\ categories[last.target].stats.gameCount = 2
    /\ categories[last.target].stats.averageRating = [n |-> 3, d |-> 1]

\* C11: Category.updateStats is idempotent: a recompute that directly follows a
\* recompute of the same category leaves gameCount, totalPlayCount and
\* averageRating as the first call left them, and no recompute changes a Game.
C11_UpdateStatsIdempotent ==
    [][(last'.op = "catstats" /\ last'.code = 200 /\ ops' # ops) =>
        /\ games' = games
        /\ last'.a = 1 => categories'[last'.target].stats = categories[last'.target].stats]_vars

\* the rollup of a category with a rated game was recomputed twice in a row
C11_Witness ==
    /\ last.op = "catstats" /\ last.code = 200 /\ last.a = 1
    /\ categories[last.target].stats.gameCount > 0
    /\ categories[last.target].stats.averageRating # Zero

\* C13: each call of Game.updateStats(playTime) adds exactly 1 to stats.playCount
\* and exactly playTime to stats.totalPlayTime and leaves averagePlayTime =
\* totalPlayTime / playCount; after any sequence of calls playCount is the
\* number of calls and totalPlayTime the sum of their playTime arguments.
C13_PlayStatsAccumulate ==
    [][/\ \A g \in Games :
            /\ games'[g].stats.playCount = played'[g].calls
            /\ games'[g].stats.totalPlayTime = played'[g].time
            /\ played'[g].calls > 0 =>
                    IsMean(games'[g].stats.averagePlayTime, played'[g].time, played'[g].calls)
       /\ last'.op = "updateStats" =>
            LET old == games[last'.target].stats
                new == games'[last'.target].stats
            IN /\ new.playCount = old.playCount + 1
               /\ new.totalPlayTime = old.totalPlayTime + last'.a
               /\ new.averagePlayTime.d # 0
               /\ new.averagePlayTime.n * new.playCount
                    = new.totalPlayTime * new.averagePlayTime.d]_vars

\* two calls with play times 1 and 2 (in either order): playCount 2,
\* totalPlayTime 3, averagePlayTime 1.5
C13_Witness ==
    /\ last.op = "updateStats" /\ last.a > 0
    /\ played[last.target] = [calls |-> 2, time |-> 3]
    /\ games[last.target].stats.playCount = 2
    /\ games[last.target].stats.totalPlayTime = 3
    /\ games[last.target].stats.averagePlayTime = [n |-> 3, d |-> 2]

\* the requests on reviews, plays, favorites and games
GameAndReviewOps ==
    {"post", "put", "delete", "view", "incrementFavorites", "decrementFavorites",
     "creategame", "putgame", "deletegame"}

\* C12 (as claimed): creating, editing or deleting a review, recording a play,
\* toggling a favorite, and creating, updating or deleting a game all leave
\* every Category's stats unchanged.
C12_NoRecomputeFromGamesOrReviews ==
    [][last'.op \in GameAndReviewOps => categories' = categories]_vars

\* C12 (amended): as above for every request but a successful POST /api/games,
\* which leaves the new game's category with the rollup of its active games
\* (the new one included) and every other category unchanged.
C12_RecomputeOnlyOnStatsAndCreate ==
    [][/\ (last'.op \in GameAndReviewOps /\ ~(last'.op = "creategame" /\ last'.code = 201))
            => categories' = categories
       /\ (last'.op = "creategame" /\ last'.code = 201) =>
            \E c \in Cats :
                /\ c = last'.a
                /\ last'.target \in DOMAIN games' \ DOMAIN games
                /\ games'[last'.target].category = c
                /\ CountsRolledUp(c)'
                /\ \A k \in Cats \ {c} : categories'[k] = categories[k]]_vars

\* a game was created in a category that already had a reviewed game
C12_Witness ==
    /\ last.op = "creategame" /\ last.code = 201
    /\ categories[last.a].stats.gameCount = 2
    /\ categories[last.a].stats.averageRating # Zero

C15_RejectedBeforeAggregator ==
    [][last'.op = "post" =>
        /\ last'.code \in {201, 400, 404, 500}
        /\ last'.code # 201 =>
            /\ reviews' = reviews
            /\ games' = games
            /\ users' = users
            /\ last'.a \notin Stars => last'.code = 400
            /\ (last'.a \in Stars /\ last'.target > 0 /\ last'.target \notin Games)
                    => last'.code = 404
        /\ last'.code = 201 =>
            \E d \in BagToSet(reviews') :
                /\ reviews' = reviews (+) SetToBag({d})
                /\ d.rating \in Stars
                /\ d.game \in Games
                /\ users'[d.user].reviewsPosted = users[d.user].reviewsPosted + 1]_vars

\* a submission for a deleted game was answered 404 while a review of another
\* submission is stored
C15_Witness ==
    /\ last.op = "post" /\ last.code = 404 /\ last.a \in Stars
    /\ reviews # EmptyBag
    /\ \E g \in 1..Len(posted) : g \notin Games

\* C16 (as claimed): after a user deleted their account, each game that user
\* had reviewed has rating.count, distribution and average equal to those of
\* its remaining active reviews.
C16_AccountDeletionRecomputes ==
    [][(last'.op = "deleteaccount" /\ last'.code = 200) =>
        \A g \in Games :
            (\E d \in BagToSet(reviews) : d.user = last'.target /\ d.game = g) =>
                /\ games'[g].rating.count = ActiveCountIn(reviews', g)
                /\ \A s \in Stars :
                        games'[g].rating.distribution[s] = ActiveWithIn(reviews', g, s)
                /\ ActiveCountIn(reviews', g) > 0 =>
                        IsMean(games'[g].rating.average, ActiveSumIn(reviews', g),
                               ActiveCountIn(reviews', g))
                /\ ActiveCountIn(reviews', g) = 0 => games'[g].rating.average = Zero]_vars

\* C17 (as claimed): a reply request by a logged-in user whose role is not
\* 'admin' is rejected and leaves the review's reply unchanged.
C17_ReplyIsAdminOnly ==
    [][(last'.op = "reply" /\ users[last'.a].role # "admin") =>
        /\ last'.code \in {401, 403}
        /\ reviews' = reviews]_vars

\* C20: a review is modified or deleted only by its author or by an admin: PUT
\* or DELETE /api/reviews/:id by any other logged-in user is answered 403 and
\* leaves the reviews and every game's rating unchanged; the author and an
\* admin are not answered 403.
C20_OnlyAuthorOrAdmin ==
    [][last'.op \in {"put", "delete"} =>
        /\ last'.by \in {"author", "admin", "other"}
        /\ last'.by = "other" => last'.code = 403
        /\ last'.by # "other" => last'.code = 200
        /\ last'.code = 403 => (reviews' = reviews /\ games' = games /\ users' = users)]_vars

\* a user who is neither the author nor an admin was refused on a stored,
\* rated review
C20_Witness ==
    /\ last.op \in {"put", "delete"} /\ last.code = 403 /\ last.by = "other"
    /\ ActiveCount(last.target) > 0
    /\ games[last.target].rating.count > 0

\* ---- who may do what ----
AdminOps ==
    {"creategame", "putgame", "deletegame", "createcategory", "putcategory",
     "deletecategory", "catstats", "createguide", "listusers", "changerole"}

ProtectedOps == AdminOps \cup {"deleteaccount"}

\* the token verifies, its user is stored and has followed the verification link
Authenticated(c) == c.kind = "token" /\ c.id \in Users /\ users[c.id].isVerified

StoreUnchanged ==
    UNCHANGED <<games, reviews, users, categories, guides, posted, only, played>>

\* C18: an admin-only operation asked for without authentication is answered
\* 401, and asked for by an authenticated requester whose role is not 'admin'
\* is answered 403; in both cases nothing that is stored changes.
C18_AdminOnly ==
    [][(ops' # ops /\ last'.op \in AdminOps) =>
          /\ ~Authenticated(cred') => last'.code = 401
          /\ (Authenticated(cred') /\ users[cred'.id].role # "admin") => last'.code = 403
          /\ last'.code \in {401, 403} => StoreUnchanged]_vars

\* a user whom the admin made moderator asks for a role change
C18_Witness ==
    /\ last.op = "changerole" /\ last.code = 403
    /\ Authenticated(cred) /\ users[cred.id].role = "moderator"

\* C19: protect lets a request through only if its token verifies, the user
\* of the token is stored and is verified (the handler then acts as that
\* user); every other request is answered 401 and nothing after protect runs.
C19_ProtectPassesOnlyVerified ==
    [][(ops' # ops /\ last'.op \in ProtectedOps) =>
          /\ last'.code # 401 => Authenticated(cred')
          /\ ~Authenticated(cred') => (last'.code = 401 /\ StoreUnchanged)
          /\ (last'.op = "deleteaccount" /\ last'.code # 401) => last'.target = cred'.id]_vars

\* the token of an account that was deleted is refused
C19_Witness ==
    /\ last.op \in ProtectedOps /\ last.code = 401
    /\ cred.kind = "token" /\ cred.id \notin Users

\* C21 (as claimed): in every reachable state a user has at most one active
\* review of a game, also when two submissions of that user run concurrently.
C21_OneActiveReviewPerPair ==
    \A d \in BagToSet(reviews) :
        d.status = "active" =>
            /\ CopiesIn(d, reviews) = 1
            /\ \A e \in BagToSet(reviews) :
                    (e.status = "active" /\ e.game = d.game /\ e.user = d.user) => e = d

\* C22: a login is answered 200 only for a verified account, for which a
\* verify request succeeded before; a verify request with a token that a
\* verify request succeeded with before is answered 400 and changes no user.
C22_LoginOnlyAfterVerify ==
    [][(ops' # ops) =>
          /\ (last'.op = "login" /\ last'.code = 200) =>
                /\ users[last'.target].isVerified
                /\ <<"verify", last'.target, 0>> \in trail
          /\ (last'.op = "verify" /\ <<"verified with", last'.a, 0>> \in trail) =>
                (last'.code = 400 /\ users' = users)]_vars

\* an account registered, was verified and logged in; the verification link
\* is then followed a second time
C22_Witness ==
    /\ last.op = "verify" /\ last.code = 400
    /\ <<"verified with", last.a, 0>> \in trail
    /\ \E u \in Users : <<"verify", u, 0>> \in trail /\ <<"login", u, 0>> \in trail

\* the reset token number t was stored less than ResetMinutes ago
Fresh(t) == \E e \in trail : e[1] = "reset token" /\ e[2] = t /\ now < e[3] + ResetMinutes

\* C23: a reset request is answered 200 only with a token that was stored
\* less than 10 minutes ago and that no reset succeeded with before, and it
\* clears resetPasswordToken and resetPasswordExpire; any other reset request
\* is answered 400 and changes no user (so no password).
C23_ResetOnceBeforeExpiry ==
    [][(ops' # ops /\ last'.op = "reset") =>
          /\ last'.code \in {200, 400}
          /\ last'.code = 200 =>
                /\ Fresh(last'.a)
                /\ <<"reset with", last'.a, 0>> \notin trail
                /\ users'[last'.target].resetPasswordToken = Unset
                /\ users'[last'.target].resetPasswordExpire = 0
          /\ last'.code = 400 => users' = users]_vars

\* the token of a reset that succeeded is sent again
C23_Witness ==
    /\ last.op = "reset" /\ last.code = 400
    /\ <<"reset with", last.a, 0>> \in trail
    /\ \E u \in Users : users[u].password = bcrypt(2)

\* C24: when the verification mail cannot be sent, the registration is
\* answered 500 and leaves the users as they were, none of them with that
\* username or email; a registration of the same username and email right
\* after it is not refused as a duplicate.
C24_RegistrationRollsBack ==
    [][(ops' # ops /\ last'.op = "register") =>
          /\ last'.code = 500 =>
                /\ users' = users
                /\ \A u \in DOMAIN users' : /\ users'[u].username # last'.a
                                            /\ users'[u].email # last'.b
          /\ (last.op = "register" /\ last.code = 500
                /\ last'.a = last.a /\ last'.b = last.b) => last'.code # 400]_vars

\* a registration whose mail failed was repeated and went through
C24_Witness ==
    /\ last.op = "register" /\ last.code = 201
    /\ <<"mail failed", last.a, last.b>> \in trail
    /\ \E u \in Users : users[u].username = last.a /\ users[u].email = last.b

\* category c is in use: a game has it as category or a category as parent
InUse(c) ==
    \/ \E g \in Games : games[g].category = c
    \/ \E k \in DOMAIN categories : categories[k].parent = c

\* C25: a category deletion removes the category only when no game and no
\* category refers to it, and is otherwise answered 400 with the categories
\* unchanged; while games are created and categories deleted, every game's
\* category is a stored category.
C25_DeletionKeepsReferences ==
    /\ [](\A g \in Games : games[g].category \in DOMAIN categories)
    /\ [][(ops' # ops /\ last'.op = "deletecategory") =>
             /\ last'.code = 200 =>
                   /\ ~InUse(last'.target)
                   /\ categories' = [k \in DOMAIN categories \ {last'.target} |-> categories[k]]
             /\ last'.code # 200 => categories' = categories
             /\ (last'.code \in {200, 400} /\ InUse(last'.target)) => last'.code = 400]_vars

\* the admin created a game in category 2 and then asked to delete category 2
C25_Witness ==
    /\ last.op = "deletecategory" /\ last.code = 400
    /\ \E g \in Games : g > TreeGames /\ games[g].category = last.target
    /\ \A k \in DOMAIN categories : categories[k].parent # last.target


\* C26: in every reachable state, every review's helpful.users holds no user
\* twice and helpful.count is the length of helpful.users; an answered helpful
\* toggle changes the caller's membership in one review and nobody else's.
C26_HelpfulIsASet ==
    /\ [](\A d \in BagToSet(reviews) :
             /\ d.helpful.count = Len(d.helpful.users)
             /\ Cardinality(Members(d.helpful.users)) = Len(d.helpful.users))
    /\ [][(ops' # ops /\ last'.op = "helpful" /\ last'.code = 200) =>
             \E d \in BagToSet(reviews) : \E e \in BagToSet(reviews') :
                /\ reviews' = Insert(Remove(reviews, d), e)
                /\ e = [d EXCEPT !.helpful = e.helpful]
                /\ (last'.target \in Members(e.helpful.users))
                      # (last'.target \in Members(d.helpful.users))
                /\ Members(e.helpful.users) \ {last'.target}
                      = Members(d.helpful.users) \ {last'.target}]_vars


\* C27: each game's stats.favoriteCount is the number of users whose most
\* recent favorite toggle on that game was answered isFavorited: true, and a
\* toggle lowers a game's favoriteCount only for a user who had favorited it.
C27_FavoriteCountIsFavoriters ==
    /\ [](\A g \in Games :
             games[g].stats.favoriteCount
                = Cardinality({u \in Users : <<"favorited", u, g>> \in trail}))
    /\ [][\A g \in Games :
             games'[g].stats.favoriteCount < games[g].stats.favoriteCount =>
                \E u \in Users : /\ <<"favorited", u, g>> \in trail
                                 /\ <<"favorited", u, g>> \notin trail']_vars


\* C28: in every quiescent state each game's rating.count is the number of
\* its active reviews, and an edit that takes a review out of the active ones
\* (status 'active' to 'hidden') of a game whose rating matched its active
\* reviews leaves count, distribution and average those of the reviews still
\* active.
C28_OnlyActiveReviewsCount ==
    /\ [](Quiescent => \A g \in Games : games[g].rating.count = ActiveCount(g))
    /\ [][(last'.op = "put" /\ last'.code = 200
             /\ ActiveCountIn(reviews', last'.target) < ActiveCount(last'.target)) =>
            LET g == last'.target
                old == games[g].rating
                new == games'[g].rating
            IN (old.count = ActiveCount(g)
                  /\ \A s \in Stars : old.distribution[s] = ActiveWith(g, s))
               => /\ new.count = ActiveCountIn(reviews', g)
                  /\ \A s \in Stars : new.distribution[s] = ActiveWithIn(reviews', g, s)
                  /\ IsMean(new.average, ActiveSumIn(reviews', g), new.count)]_vars

====
